---- MODULE Spec2Model ----
(***************************************************************************)
(* The perception-decision-actuation loop of PhoneAgent                    *)
(* (src/phone_agent/agent.py) together with the action interpreter         *)
(* ActionHandler.execute (src/phone_agent/actions/handler.py).             *)
(*                                                                         *)
(* One action of the model is one call of _execute_step, entered through   *)
(* run() (first step, loop step, loop exit) or through the manual step()   *)
(* API.  The environment - the screen the device shows, the reply of the   *)
(* model endpoint, the answer of the confirmation callback and the point   *)
(* at which a device call fails - is chosen nondeterministically.          *)
(***************************************************************************)
EXTENDS Integers, Sequences, FiniteSets, TLC

VARIABLES
    max_steps,                  \* AgentConfig.max_steps
    use_thirdparty_prompt,      \* AgentConfig.use_thirdparty_prompt
    context,                    \* PhoneAgent._context
    step_count,                 \* PhoneAgent._step_count
    last_screen_hash,           \* PhoneAgent._last_screen_hash
    screen_unchanged_steps,     \* PhoneAgent._screen_unchanged_steps
    recent_action_signatures,   \* PhoneAgent._recent_action_signatures
    stuck_warnings,             \* PhoneAgent._stuck_warnings
    ime,                        \* the input method active on the device
    pc,                         \* "idle": no call in progress; "running": inside run()'s loop
    result,                     \* what the last _execute_step call produced
    run_result,                 \* what the last run() call produced
    obs,                        \* what the last _execute_step call did (requests, device calls, ...)
    frames,                     \* screenshots captured by the run() call in progress / last finished
    calls,                      \* number of run() and step() calls the caller has made
    last,                       \* the API call that took the last transition
    odd,                        \* departures from the steady run used so far
    input,                      \* the arguments of a function called on its own
    output                      \* what that call returned

vars == << max_steps, use_thirdparty_prompt, context, step_count, last_screen_hash,
           screen_unchanged_steps, recent_action_signatures, stuck_warnings, ime,
           pc, result, run_result, obs, frames, calls, last, odd, input, output >>

(***************************************************************************)
(* Bounds of the model.                                                    *)
(***************************************************************************)
MaxSteps == 8       \* max_steps is drawn from 0..MaxSteps
MaxOdd == 2         \* departures from the steady run: see IsOdd, ScreenMoved, CallCost
NumScreens == 2     \* distinct screen contents the device can show
MaxRel == 1000      \* largest relative coordinate in a reply (models emit 0..1000 inclusive)
MaxSignatures == 7  \* length of the longest signature list given to _looks_like_loop
MaxCalls == 2       \* calls of save_config_to_file, and of load_config_from_file, by a launcher
MaxSegments == 3    \* path segments of a base URL given to normalize_openai_base_url

(***************************************************************************)
(* Program constants.                                                      *)
(***************************************************************************)
RingCapacity == 12          \* deque(maxlen=12)
UnchangedOverride == 6      \* self._screen_unchanged_steps >= 6
WarningsOverride == 2       \* self._stuck_warnings >= 2
UnchangedWarn == 2          \* self._screen_unchanged_steps >= 2
LoopWindow == 6             \* _looks_like_loop inspects the last six signatures
Scale == 1000               \* element[0] / 1000 * screen_width
Precision == 53             \* significant bits of a Python float (binary64)
LimbBits == 14              \* width of a limb of the significand arithmetic
Limb == 2 ^ LimbBits

None == "None"
ADB_IME == "com.android.adbkeyboard/.AdbIME"
USER_IME == "com.example.ime/.UserIME"

Get(d, k) == IF k \in DOMAIN d THEN d[k] ELSE None

(***************************************************************************)
(* Action records.  parse_action builds {"_metadata": fn, **keywords};     *)
(* do()/finish() build the same records directly.                          *)
(***************************************************************************)
do(kwargs) == kwargs @@ ("_metadata" :> "do")

finish(kwargs) == kwargs @@ ("_metadata" :> "finish")

TapA == [action |-> "Tap", element |-> <<100, 200>>]
TapB == [action |-> "Tap", element |-> <<300, 600>>]
TapPay == [action |-> "Tap", element |-> <<300, 600>>, message |-> "confirm payment"]
TypeHi == [action |-> "Type", text |-> "hi"]
TakeOverLogin == [action |-> "Take_over", message |-> "login"]
ListNamed == [action |-> "[1, 2]"]      \* do(action=[1, 2]): a list, denoted by its str()
FinishDone == [message |-> "done"]

\* A reply of the model endpoint: the call it spells (fn(**args)), or free text.
PlainReplies == { [fn |-> "do", args |-> TapA] }

OddReplies == { [fn |-> "do", args |-> TapB],
                [fn |-> "do", args |-> TapPay], [fn |-> "do", args |-> TypeHi],
                [fn |-> "do", args |-> TakeOverLogin], [fn |-> "do", args |-> ListNamed],
                [fn |-> "finish", args |-> FinishDone],
                [fn |-> "text", args |-> [message |-> "sorry"]] }

Replies == PlainReplies \cup OddReplies

\* parse_action raises ValueError unless the reply holds a do(...) or finish(...) call.
ParseFails(reply) == reply.fn \notin {"do", "finish"}

parse_action(reply) == IF reply.fn = "do" THEN do(reply.args) ELSE finish(reply.args)

(***************************************************************************)
(* Messages of the conversation context (MessageBuilder).                  *)
(***************************************************************************)
Message(role, text, hint, image) ==
    [role |-> role, text |-> text, hint |-> hint, image |-> image]

create_system_message == Message("system", "system_prompt", FALSE, FALSE)

create_user_message(text, hint, image) == Message("user", text, hint, image)

create_assistant_message == Message("assistant", "reply", FALSE, FALSE)

remove_images_from_message(m) == [m EXCEPT !.image = FALSE]

ReplaceLast(ctx, m) == [ctx EXCEPT ![Len(ctx)] = m]

ImageCount(ctx) == Cardinality({i \in 1..Len(ctx) : ctx[i].image})

(***************************************************************************)
(* Screen hash, action signature, loop detector.                           *)
(***************************************************************************)
\* sha1 of the screenshot bytes: equal data, equal digest; distinct data, distinct digest.
_screen_hash(data) == "sha1:" \o ToString(data)

\* A variant that writes a list without the space after the comma.
PyListCompact(v) == "[" \o ToString(v[1]) \o "," \o ToString(v[2]) \o "]"

\* str() of a list of two ints, as an f-string formats it
PyList(v) == "[" \o ToString(v[1]) \o ", " \o ToString(v[2]) \o "]"

StrList(a, k) == IF k \in DOMAIN a THEN PyList(a[k]) ELSE None

StrText(a, k) == IF k \in DOMAIN a THEN a[k] ELSE None

_action_signature(a) ==
    IF Get(a, "_metadata") = "finish" THEN "finish"
    ELSE LET name == Get(a, "action") IN
         IF name = "Tap" THEN "Tap:" \o StrList(a, "element")
         ELSE IF name = "Swipe" THEN "Swipe:" \o StrList(a, "start") \o "->" \o StrList(a, "end")
         ELSE IF name = "Type" THEN "Type:" \o StrText(a, "text")
         ELSE IF name = "Launch" THEN "Launch:" \o StrText(a, "app")
         ELSE IF name = "Wait" THEN "Wait:" \o StrText(a, "duration")
         ELSE IF name = "Take_over" THEN "Take_over"
         ELSE name

\* A variant that compares the first four of the last six only.
_looks_like_loop_first_four(signatures) ==
    IF Len(signatures) < LoopWindow THEN FALSE
    ELSE LET last6 == SubSeq(signatures, Len(signatures) - LoopWindow + 1, Len(signatures))
         IN  last6[1] = last6[3] /\ last6[2] = last6[4]

\* agent.py 119-127
_looks_like_loop(signatures) ==
    IF Len(signatures) < LoopWindow THEN FALSE
    ELSE LET last6 == SubSeq(signatures, Len(signatures) - LoopWindow + 1, Len(signatures))
             a == last6[1]
             b == last6[2]
         IN  IF a = b THEN \A i \in 1..LoopWindow : last6[i] = a
             ELSE last6 = << a, b, a, b, a, b >>

\* A variant without maxlen: nothing is ever dropped.
RingAppendUnbounded(ring, s) == Append(ring, s)

\* deque(maxlen=12).append
RingAppend(ring, s) ==
    IF Len(ring) >= RingCapacity THEN Tail(ring) \o << s >> ELSE Append(ring, s)

(***************************************************************************)
(* The device driver as the interpreter sees it.  Every handler outcome    *)
(* carries the log of the callbacks and device calls it made, in order,    *)
(* and the input method left active on the device.                         *)
(***************************************************************************)
Screenshot == [width |-> 1080, height |-> 2400]

\* detect_and_set_adb_keyboard: returns the active IME and switches to the ADB keyboard.
detect_and_set_adb_keyboard(current) == [original |-> current, ime |-> ADB_IME]

\* restore_keyboard(id): makes id the active IME again.
restore_keyboard(id) == id

ActionResult(success, should_finish, message) ==
    [success |-> success, should_finish |-> should_finish, message |-> message]

\* The interpreter was not called.
NoExecution == ActionResult(FALSE, FALSE, "not executed")

Returned(res, log, imeAfter) == [raised |-> FALSE, res |-> res, dev |-> log, ime |-> imeAfter]

Raised(log, imeAfter) ==
    [raised |-> TRUE, res |-> ActionResult(FALSE, FALSE, "raised"), dev |-> log, ime |-> imeAfter]

(***************************************************************************)
(* int(rel / 1000 * dim) as Python computes it: rel / 1000 is the binary64  *)
(* nearest to the quotient (ties to even), its product with dim is rounded  *)
(* to binary64 again, and int() drops the fraction.  A binary64 is kept as  *)
(* [m, t]: the value m / 2^t with m a significand of Precision bits.  The   *)
(* significands exceed the machine integers of the checker, so a natural    *)
(* number is a sequence of limbs in base Limb, most significant first.      *)
(* rel and dim are non-negative and below Limb \div 2.                      *)
(***************************************************************************)
RECURSIVE BitLength(_)
BitLength(n) == IF n = 0 THEN 0 ELSE 1 + BitLength(n \div 2)

RECURSIVE BigOf(_)
BigOf(n) == IF n = 0 THEN << >> ELSE Append(BigOf(n \div Limb), n % Limb)

RECURSIVE SmallOf(_)
SmallOf(A) ==
    IF A = << >> THEN 0 ELSE Limb * SmallOf(SubSeq(A, 1, Len(A) - 1)) + A[Len(A)]

BigBits(A) == IF A = << >> THEN 0 ELSE LimbBits * (Len(A) - 1) + BitLength(A[1])

\* A * w + carry
RECURSIVE BigTimes(_, _, _)
BigTimes(A, w, carry) ==
    IF A = << >> THEN BigOf(carry)
    ELSE \* the lowest limb of the product, below the product of the rest
         Append(BigTimes(SubSeq(A, 1, Len(A) - 1), w, (A[Len(A)] * w + carry) \div Limb),
                (A[Len(A)] * w + carry) % Limb)

RECURSIVE Strip(_)
Strip(A) == IF A # << >> /\ A[1] = 0 THEN Strip(Tail(A)) ELSE A

\* Long division of A by d: [q, r] with A = q * d + r, given the remainder r so far.
RECURSIVE BigDivMod(_, _, _, _)
BigDivMod(A, d, r, q) ==
    IF A = << >> THEN [q |-> Strip(q), r |-> r]
    ELSE BigDivMod(Tail(A), d, (r * Limb + A[1]) % d, Append(q, (r * Limb + A[1]) \div d))

\* A * 2^k
ShiftLeft(A, k) ==
    BigTimes(A, 2 ^ (k % LimbBits), 0) \o [i \in 1..(k \div LimbBits) |-> 0]

\* floor(A / 2^k)
ShiftRight(A, k) ==
    IF k \div LimbBits >= Len(A) THEN << >>
    ELSE BigDivMod(SubSeq(A, 1, Len(A) - (k \div LimbBits)), 2 ^ (k % LimbBits), 0, << >>).q

\* The binary64 nearest to (q + r/d) / 2^t, ties to even, where q has Precision bits.
Rounded(q, r, d, t) ==
    LET odd_q == q[Len(q)] % 2 = 1
        up == 2 * r > d \/ (2 * r = d /\ odd_q)
        m == IF up THEN BigTimes(q, 1, 1) ELSE q
    IN  IF BigBits(m) > Precision THEN [m |-> ShiftRight(m, 1), t |-> t - 1]
        ELSE [m |-> m, t |-> t]

\* x / d (Python's true division of two positive ints)
TrueDiv(x, d) ==
    LET t0 == Precision - 1 + BitLength(d) - BitLength(x)
        q0 == BigDivMod(ShiftLeft(BigOf(x), t0), d, 0, << >>)
        t == IF BigBits(q0.q) < Precision THEN t0 + 1 ELSE t0
        q == BigDivMod(ShiftLeft(BigOf(x), t), d, 0, << >>)
    IN  Rounded(q.q, q.r, d, t)

\* f * w (a float times a positive int)
FloatTimes(f, w) ==
    LET p == BigTimes(f.m, w, 0)
        s == BigBits(p) - Precision
    IN  IF s <= 0 THEN [m |-> p, t |-> f.t]
        ELSE LET q == BigDivMod(p, 2 ^ s, 0, << >>)
             IN  Rounded(q.q, q.r, 2 ^ s, f.t - s)

\* int(f)
IntTrunc(f) == SmallOf(IF f.t >= 0 THEN ShiftRight(f.m, f.t) ELSE ShiftLeft(f.m, 0 - f.t))

\* int(rel / 1000 * dim)
Scaled(rel, dim) ==
    IF rel = 0 \/ dim = 0 THEN 0 ELSE IntTrunc(FloatTimes(TrueDiv(rel, Scale), dim))

\* The relative coordinates and the screen dimensions that occur in the model, and
\* Scaled on them, computed once.
Rels == {0, 1, 4, 100, 200, 205, 300, 500, 600, 999, MaxRel}

ScreenSizes == { << 1080, 2400 >>, << 720, 1280 >> }

\* The dimensions of the screens, and of smaller and square surfaces.
Dims == { size[1] : size \in ScreenSizes } \cup { size[2] : size \in ScreenSizes }
            \cup {1, 100, Scale}

ScaledOn == [rel \in Rels, dim \in Dims |-> Scaled(rel, dim)]

Pixel(rel, dim) == ScaledOn[rel, dim]

\* A variant that scales x by the height and y by the width.
_convert_relative_to_absolute_swapped(element, screen_width, screen_height) ==
    [i \in 1..2 |-> Pixel(element[i], << screen_height, screen_width >>[i])]

_convert_relative_to_absolute(element, screen_width, screen_height) ==
    [i \in 1..2 |-> Pixel(element[i], << screen_width, screen_height >>[i])]

\* Scaling back, which the repository does not implement: the mirror image of
\* _convert_relative_to_absolute, int(pixel / dim * 1000) for x and y.
_convert_absolute_to_relative(pixels, screen_width, screen_height) ==
    LET Unscaled(pixel, dim) ==
            IF pixel = 0 THEN 0 ELSE IntTrunc(FloatTimes(TrueDiv(pixel, dim), Scale))
    IN  [i \in 1..2 |-> Unscaled(pixels[i], << screen_width, screen_height >>[i])]

\* `if not element`: the key is absent or its list is empty
NoList(action, k) == k \notin DOMAIN action \/ action[k] = << >>

\* `if not app_name`: the key is absent or its string is empty
NoText(action, k) == k \notin DOMAIN action \/ action[k] = ""

\* A variant of the guard that lets every sensitive operation through.
VetoedNever(action, confirm) == FALSE

\* handler.py 140-141: the action carries a message and the callback returned false
Vetoed(action, confirm) == "message" \in DOMAIN action /\ ~confirm

\* fail = k > 0: the k-th device call of the handler raises (and has no effect).
_handle_tap(action, width, height, imeNow, confirm, fail) ==
    IF NoList(action, "element")
    THEN Returned(ActionResult(FALSE, FALSE, "No element coordinates"), << >>, imeNow)
    ELSE LET Tapped(xy, asked) ==
                 IF Vetoed(action, confirm)
                 THEN Returned(ActionResult(FALSE, TRUE, "User cancelled sensitive operation"),
                               asked, imeNow)
                 ELSE IF fail = 1
                      THEN Raised(Append(asked, << "tap" >> \o xy), imeNow)
                      ELSE Returned(ActionResult(TRUE, FALSE, None),
                                    Append(asked, << "tap" >> \o xy), imeNow)
         IN  Tapped(_convert_relative_to_absolute(action.element, width, height),
                    IF "message" \in DOMAIN action
                    THEN << << "confirmation_callback", action.message, confirm >> >>
                    ELSE << >>)

\* A variant that types before it clears the field.
_handle_type_then_clear(action, width, height, imeNow, confirm, fail) ==
    LET text == IF "text" \in DOMAIN action THEN action.text ELSE ""
        sw == detect_and_set_adb_keyboard(imeNow)
        c1 == << "detect_and_set_adb_keyboard" >>
        c2 == << "type_text", text >>
        c3 == << "clear_text" >>
        c4 == << "restore_keyboard", sw.original >>
    IN  IF fail = 1 THEN Raised(<< c1 >>, imeNow)
        ELSE IF fail = 2 THEN Raised(<< c1, c2 >>, sw.ime)
        ELSE IF fail = 3 THEN Raised(<< c1, c2, c3 >>, sw.ime)
        ELSE IF fail = 4 THEN Raised(<< c1, c2, c3, c4 >>, sw.ime)
        ELSE Returned(ActionResult(TRUE, FALSE, None), << c1, c2, c3, c4 >>,
                      restore_keyboard(sw.original))

\* handler.py 152-174
_handle_type(action, width, height, imeNow, confirm, fail) ==
    LET text == IF "text" \in DOMAIN action THEN action.text ELSE ""
        sw == detect_and_set_adb_keyboard(imeNow)
        c1 == << "detect_and_set_adb_keyboard" >>
        c2 == << "clear_text" >>
        c3 == << "type_text", text >>
        c4 == << "restore_keyboard", sw.original >>
    IN  IF fail = 1 THEN Raised(<< c1 >>, imeNow)
        ELSE IF fail = 2 THEN Raised(<< c1, c2 >>, sw.ime)
        ELSE IF fail = 3 THEN Raised(<< c1, c2, c3 >>, sw.ime)
        ELSE IF fail = 4 THEN Raised(<< c1, c2, c3, c4 >>, sw.ime)
        ELSE Returned(ActionResult(TRUE, FALSE, None), << c1, c2, c3, c4 >>,
                      restore_keyboard(sw.original))

\* A variant of the Take_over handler that ends the task.
_handle_takeover_finishing(action, width, height, imeNow, confirm, fail) ==
    LET message == IF "message" \in DOMAIN action THEN action.message
                   ELSE "User intervention required"
    IN  Returned(ActionResult(TRUE, TRUE, None), << << "takeover_callback", message >> >>, imeNow)

_handle_takeover(action, width, height, imeNow, confirm, fail) ==
    LET message == IF "message" \in DOMAIN action THEN action.message
                   ELSE "User intervention required"
    IN  Returned(ActionResult(TRUE, FALSE, None), << << "takeover_callback", message >> >>, imeNow)

\* launch_app returns False for an app the device does not know
InstalledApps == {"WeChat"}

_handle_launch(action, width, height, imeNow, confirm, fail) ==
    IF NoText(action, "app")
    THEN Returned(ActionResult(FALSE, FALSE, "No app name specified"), << >>, imeNow)
    ELSE LET call == << << "launch_app", action.app >> >> IN
         IF fail = 1 THEN Raised(call, imeNow)
         ELSE IF action.app \in InstalledApps
         THEN Returned(ActionResult(TRUE, FALSE, None), call, imeNow)
         ELSE Returned(ActionResult(FALSE, FALSE, "App not found"), call, imeNow)

_handle_swipe(action, width, height, imeNow, confirm, fail) ==
    IF NoList(action, "start") \/ NoList(action, "end")
    THEN Returned(ActionResult(FALSE, FALSE, "Missing swipe coordinates"), << >>, imeNow)
    ELSE LET Swiped(from, to) ==
                 IF fail = 1 THEN Raised(<< << "swipe" >> \o from \o to >>, imeNow)
                 ELSE Returned(ActionResult(TRUE, FALSE, None),
                               << << "swipe" >> \o from \o to >>, imeNow)
         IN  Swiped(_convert_relative_to_absolute(action.start, width, height),
                    _convert_relative_to_absolute(action.end, width, height))

_handle_back(action, width, height, imeNow, confirm, fail) ==
    IF fail = 1 THEN Raised(<< << "back" >> >>, imeNow)
    ELSE Returned(ActionResult(TRUE, FALSE, None), << << "back" >> >>, imeNow)

_handle_home(action, width, height, imeNow, confirm, fail) ==
    IF fail = 1 THEN Raised(<< << "home" >> >>, imeNow)
    ELSE Returned(ActionResult(TRUE, FALSE, None), << << "home" >> >>, imeNow)

_handle_double_tap(action, width, height, imeNow, confirm, fail) ==
    IF NoList(action, "element")
    THEN Returned(ActionResult(FALSE, FALSE, "No element coordinates"), << >>, imeNow)
    ELSE LET Tapped(xy) ==
                 IF fail = 1 THEN Raised(<< << "double_tap" >> \o xy >>, imeNow)
                 ELSE Returned(ActionResult(TRUE, FALSE, None), << << "double_tap" >> \o xy >>,
                               imeNow)
         IN  Tapped(_convert_relative_to_absolute(action.element, width, height))

_handle_long_press(action, width, height, imeNow, confirm, fail) ==
    IF NoList(action, "element")
    THEN Returned(ActionResult(FALSE, FALSE, "No element coordinates"), << >>, imeNow)
    ELSE LET Pressed(xy) ==
                 IF fail = 1 THEN Raised(<< << "long_press" >> \o xy >>, imeNow)
                 ELSE Returned(ActionResult(TRUE, FALSE, None), << << "long_press" >> \o xy >>,
                               imeNow)
         IN  Pressed(_convert_relative_to_absolute(action.element, width, height))

\* The duration is a string such as "2 seconds"; the handler sleeps and succeeds.
_handle_wait(action, width, height, imeNow, confirm, fail) ==
    LET duration_str == IF "duration" \in DOMAIN action THEN action.duration ELSE "1 seconds"
    IN  Returned(ActionResult(TRUE, FALSE, None), << << "sleep", duration_str >> >>, imeNow)

_handle_note(action, width, height, imeNow, confirm, fail) ==
    Returned(ActionResult(TRUE, FALSE, None), << >>, imeNow)

_handle_call_api(action, width, height, imeNow, confirm, fail) ==
    Returned(ActionResult(TRUE, FALSE, None), << >>, imeNow)

_handle_interact(action, width, height, imeNow, confirm, fail) ==
    Returned(ActionResult(TRUE, FALSE, "User interaction required"), << >>, imeNow)

\* The keys of the handlers dict.
HandledNames == {"Launch", "Tap", "Type", "Type_Name", "Swipe", "Back", "Home", "Double Tap",
                 "Long Press", "Wait", "Take_over", "Note", "Call_API", "Interact"}

\* An action field that holds a list: handlers.get(action_name) raises TypeError
\* (unhashable type).  The list is denoted by its str().
UnhashableNames == {"[1, 2]"}

\* str(e) of that TypeError
UnhashableError == "unhashable type: 'list'"

\* handlers.get(action_name), applied to the call's arguments
_get_handler(action_name, action, width, height, imeNow, confirm, fail) ==
    CASE action_name = "Launch" -> _handle_launch(action, width, height, imeNow, confirm, fail)
      [] action_name = "Tap" -> _handle_tap(action, width, height, imeNow, confirm, fail)
      [] action_name \in {"Type", "Type_Name"} ->
             _handle_type(action, width, height, imeNow, confirm, fail)
      [] action_name = "Swipe" -> _handle_swipe(action, width, height, imeNow, confirm, fail)
      [] action_name = "Back" -> _handle_back(action, width, height, imeNow, confirm, fail)
      [] action_name = "Home" -> _handle_home(action, width, height, imeNow, confirm, fail)
      [] action_name = "Double Tap" ->
             _handle_double_tap(action, width, height, imeNow, confirm, fail)
      [] action_name = "Long Press" ->
             _handle_long_press(action, width, height, imeNow, confirm, fail)
      [] action_name = "Wait" -> _handle_wait(action, width, height, imeNow, confirm, fail)
      [] action_name = "Take_over" ->
             _handle_takeover(action, width, height, imeNow, confirm, fail)
      [] action_name = "Note" -> _handle_note(action, width, height, imeNow, confirm, fail)
      [] action_name = "Call_API" ->
             _handle_call_api(action, width, height, imeNow, confirm, fail)
      [] action_name = "Interact" ->
             _handle_interact(action, width, height, imeNow, confirm, fail)

\* A variant that ends the task on an action name without a handler.
execute_unknown_finishes(action, width, height, imeNow, confirm, fail) ==
    LET action_type == Get(action, "_metadata") IN
    IF action_type = "finish"
    THEN Returned(ActionResult(TRUE, TRUE, Get(action, "message")), << >>, imeNow)
    ELSE IF action_type # "do"
    THEN Returned(ActionResult(FALSE, TRUE, "Unknown action type"), << >>, imeNow)
    ELSE LET action_name == Get(action, "action") IN
         IF action_name \in UnhashableNames
         THEN Raised(<< >>, imeNow)
         ELSE IF action_name \notin HandledNames
         THEN Returned(ActionResult(FALSE, TRUE, "Unknown action"), << >>, imeNow)
         ELSE LET Caught(h) ==
                      IF h.raised
                      THEN Returned(ActionResult(FALSE, FALSE, "Action failed"), h.dev, h.ime)
                      ELSE h
              IN  Caught(_get_handler(action_name, action, width, height, imeNow, confirm, fail))

\* ActionHandler.execute
execute(action, width, height, imeNow, confirm, fail) ==
    LET action_type == Get(action, "_metadata") IN
    IF action_type = "finish"
    THEN Returned(ActionResult(TRUE, TRUE, Get(action, "message")), << >>, imeNow)
    ELSE IF action_type # "do"
    THEN Returned(ActionResult(FALSE, TRUE, "Unknown action type"), << >>, imeNow)
    ELSE LET action_name == Get(action, "action") IN
         IF action_name \in UnhashableNames
         THEN Raised(<< >>, imeNow)      \* TypeError leaves execute (handler.py 76)
         ELSE IF action_name \notin HandledNames
         THEN Returned(ActionResult(FALSE, FALSE, "Unknown action"), << >>, imeNow)
         ELSE LET Caught(h) ==       \* handler.py 84-89
                      IF h.raised
                      THEN Returned(ActionResult(FALSE, FALSE, "Action failed"), h.dev, h.ime)
                      ELSE h
              IN  Caught(_get_handler(action_name, action, width, height, imeNow, confirm, fail))

(***************************************************************************)
(* The environment of one step.                                            *)
(***************************************************************************)
ModelError == [fn |-> "raise", args |-> [message |-> "timeout"]]

ModelOutcomes == Replies \cup {ModelError}

IsOdd(outcome) == outcome \notin PlainReplies

\* Answers the confirmation callback can give for this action.
ConfirmChoices(action) ==
    IF Get(action, "action") = "Tap" /\ "message" \in DOMAIN action THEN BOOLEAN ELSE {TRUE}

\* Device calls of the action's handler that can raise (0: none does).
FailChoices(action) ==
    LET name == Get(action, "action") IN
    IF Get(action, "_metadata") # "do" THEN {0}
    ELSE IF name \in {"Tap", "Double Tap", "Long Press"} /\ ~NoList(action, "element") THEN 0..1
    ELSE IF name \in {"Type", "Type_Name"} THEN 0..4
    ELSE IF name = "Swipe" /\ ~NoList(action, "start") /\ ~NoList(action, "end") THEN 0..1
    ELSE IF name = "Launch" /\ ~NoText(action, "app") THEN 0..1
    ELSE IF name \in {"Back", "Home"} THEN 0..1
    ELSE {0}

\* The device shows something else than at the previous screenshot.
ScreenMoved(current_hash) == last_screen_hash # None /\ last_screen_hash # current_hash

(***************************************************************************)
(* _execute_step, phase by phase.                                          *)
(***************************************************************************)
NoAction == ("_metadata" :> "none")

StepResult(success, finished, message) ==
    [kind |-> "result", success |-> success, finished |-> finished, message |-> message]

\* An exception left _execute_step: there is no StepResult.
StepRaised == [kind |-> "raised", success |-> FALSE, finished |-> FALSE, message |-> "exception"]

NoResult == [kind |-> "none", success |-> FALSE, finished |-> FALSE, message |-> None]

\* A variant that counts a changed screen as the first unchanged one.
UnchangedAfterFromOne(current_hash) ==
    IF last_screen_hash = current_hash THEN screen_unchanged_steps + 1 ELSE 1

\* A variant that keeps the count when the screen changes.
UnchangedAfterNoReset(current_hash) ==
    IF last_screen_hash = current_hash THEN screen_unchanged_steps + 1
    ELSE screen_unchanged_steps

\* agent.py 196-199
UnchangedAfter(current_hash) ==
    IF last_screen_hash = current_hash THEN screen_unchanged_steps + 1 ELSE 0

\* A variant that waits one more unchanged step before taking over.
StuckOverrideStrict(unchanged, warnings) ==
    /\ use_thirdparty_prompt
    /\ unchanged > UnchangedOverride
    /\ warnings >= WarningsOverride

\* agent.py 203-207
StuckOverride(unchanged, warnings) ==
    /\ use_thirdparty_prompt
    /\ unchanged >= UnchangedOverride
    /\ warnings >= WarningsOverride

\* agent.py 208-211
TakeOverSynth ==
    do([action |-> "Take_over", message |-> "stuck: please take over"])

\* agent.py 253-254
StuckHint(unchanged, ring) == unchanged >= UnchangedWarn \/ _looks_like_loop(ring)

\* A variant that opens the conversation with a system message in either mode.
BuildMessagesSystemRole(ctx, is_first, unchanged, warnings, ring) ==
    IF is_first
    THEN [context |-> ctx \o << create_system_message, create_user_message("task", FALSE, TRUE) >>,
          stuck_warnings |-> warnings]
    ELSE [context |-> Append(ctx, create_user_message("screen", FALSE, TRUE)),
          stuck_warnings |-> warnings]

\* agent.py 221-281: the context and stuck_warnings after the user message is appended
BuildMessages(ctx, is_first, unchanged, warnings, ring) ==
    IF is_first
    THEN IF use_thirdparty_prompt
         THEN [context |-> Append(ctx, create_user_message("system_prompt+task", FALSE, TRUE)),
               stuck_warnings |-> warnings]
         ELSE [context |-> ctx \o << create_system_message,
                                    create_user_message("task", FALSE, TRUE) >>,
               stuck_warnings |-> warnings]
    ELSE IF use_thirdparty_prompt
         THEN LET hint == StuckHint(unchanged, ring) IN
              [context |-> Append(ctx, create_user_message("screen", hint, TRUE)),
               stuck_warnings |-> IF hint THEN warnings + 1 ELSE warnings]
         ELSE [context |-> Append(ctx, create_user_message("screen", FALSE, TRUE)),
               stuck_warnings |-> warnings]

\* agent.py 302-320: the reply arrived
AfterReply(ctx) ==
    Append(ReplaceLast(ctx, remove_images_from_message(ctx[Len(ctx)])),
           create_assistant_message)

\* agent.py 349-351
WithRetryPrompt(ctx) == Append(ctx, create_user_message("retry", FALSE, FALSE))

\* A request is made with ctx: does a message other than the newest carry an image?
StaleImage(ctx) == \E i \in 1..(Len(ctx) - 1) : ctx[i].image

\* A variant that retries in either prompt mode.
RetryAllowedAlways(attempt) == attempt = 0

\* agent.py 337: one in-band retry, for third-party models only
RetryAllowed(attempt) == attempt = 0 /\ use_thirdparty_prompt

\* The progress of the call in hand: what it has requested and met so far.
\*   unchanged: _screen_unchanged_steps after this step's screenshot comparison
\*   requests:  calls of model_client.request;  stale: one of them was made while a
\*              message other than the newest carried an image
\*   bad:       replies that failed to parse;   error: the request that raised
\*   odds:      departures from the steady run this step has used
Started(is_first, unchanged, odds) ==
    [first |-> is_first, unchanged |-> unchanged, odds |-> odds, requests |-> 0,
     stale |-> FALSE, bad |-> 0, error |-> "none"]

\* model_client.request(self._context) is called with ctx and meets outcome r
Requested(st, ctx, r) ==
    [st EXCEPT !.requests = @ + 1,
               !.stale = @ \/ StaleImage(ctx),
               !.odds = @ + (IF IsOdd(r) THEN 1 ELSE 0),
               !.error = IF r = ModelError THEN (IF st.requests = 0 THEN "first" ELSE "retry")
                         ELSE @,
               !.bad = IF r # ModelError /\ ParseFails(r) THEN @ + 1 ELSE @]

\* The record of what the call did, kept in obs.
\*   warnings: _stuck_warnings as the stuck-override test of this step read it
\*   res:      the ActionResult the interpreter returned to the step (NoExecution: none)
Observed(st, override, action, dev, pushed, res) ==
    [first |-> st.first, unchanged |-> st.unchanged, warnings |-> stuck_warnings,
     override |-> override, requests |-> st.requests, stale |-> st.stale,
     bad |-> st.bad, error |-> st.error, action |-> action, dev |-> dev,
     pushed |-> pushed, ime_before |-> ime, res |-> res]

\* What _execute_step leaves behind: the agent's fields, the device, the StepResult
\* (or the exception) and the record of the call.
Outcome(ctx, warnings, ring, imeAfter, res, o, odds) ==
    [context |-> ctx, stuck_warnings |-> warnings, ring |-> ring, ime |-> imeAfter,
     result |-> res, obs |-> o, odds |-> odds]

\* agent.py 208-219
OverrideOutcome(ctx, st) ==
    LET Stepped(r) ==
            Outcome(ctx, stuck_warnings, recent_action_signatures, r.ime,
                    StepResult(r.res.success, r.res.should_finish, r.res.message),
                    Observed(st, TRUE, TakeOverSynth, r.dev, FALSE, r.res), st.odds)
    IN  Stepped(execute(TakeOverSynth, Screenshot.width, Screenshot.height, ime, TRUE, 0))

\* agent.py 290-299: the first request raises; the step returns before line 302
ModelErrorOutcome(b, st) ==
    Outcome(b.context, b.stuck_warnings, recent_action_signatures, ime,
            StepResult(FALSE, TRUE, "Model error"),
            Observed(st, FALSE, NoAction, << >>, FALSE, NoExecution), st.odds)

\* agent.py 352: the retry request raises inside the except block, outside any try
RetryErrorOutcome(ctx, b, st) ==
    Outcome(ctx, b.stuck_warnings, recent_action_signatures, ime, StepRaised,
            Observed(st, FALSE, NoAction, << >>, FALSE, NoExecution), st.odds)

\* agent.py 375-382
ParseFailureOutcome(ctx, b, st) ==
    Outcome(ctx, b.stuck_warnings, recent_action_signatures, ime,
            StepResult(FALSE, TRUE, "parse failure"),
            Observed(st, FALSE, NoAction, << >>, FALSE, NoExecution), st.odds)

\* A variant that ends the task on a finish action only.
FinishedByMetadata(action, res) == Get(action, "_metadata") = "finish"

\* agent.py 410
Finished(action, res) == Get(action, "_metadata") = "finish" \/ res.should_finish

\* agent.py 425: result.message or action.get("message")
StepMessage(action, res) == IF res.message # None THEN res.message ELSE Get(action, "message")

\* agent.py 394-404: an exception that leaves execute is turned into a finish action
Executed(action, width, height, imeNow, confirm, fail) ==
    LET Recovered(r) ==
            IF r.raised
            THEN execute(finish([message |-> UnhashableError]), width, height, r.ime, confirm,
                         fail)
            ELSE r
    IN  Recovered(execute(action, width, height, imeNow, confirm, fail))

\* agent.py 384-426
ExecuteOutcome(ctx, b, st, action, confirm, fail) ==
    LET Stepped(r) ==
            Outcome(ctx, b.stuck_warnings,
                    RingAppend(recent_action_signatures, _action_signature(action)), r.ime,
                    StepResult(r.res.success, Finished(action, r.res),
                               StepMessage(action, r.res)),
                    Observed(st, FALSE, action, r.dev, TRUE, r.res),
                    st.odds + (IF fail # 0 THEN 1 ELSE 0))
    IN  Stepped(Executed(action, Screenshot.width, Screenshot.height, ime, confirm, fail))

(***************************************************************************)
(* _execute_step as one action: ctx0 and count0 are _context and           *)
(* _step_count on entry (run() resets them before its first step); cost    *)
(* is what the call itself takes from the budget of departures.            *)
(***************************************************************************)
Commit(outcome) ==
    \E o \in {outcome} :
        /\ odd + o.odds <= MaxOdd
        /\ odd' = odd + o.odds
        /\ context' = o.context
        /\ stuck_warnings' = o.stuck_warnings
        /\ recent_action_signatures' = o.ring
        /\ ime' = o.ime
        /\ result' = o.result
        /\ obs' = o.obs

\* agent.py 384-426 under every answer of the callback and every device failure
Act(ctx, b, st, reply) ==
    \E action \in {parse_action(reply)} :
    \E confirm \in ConfirmChoices(action), fail \in FailChoices(action) :
        /\ odd + st.odds + (IF fail # 0 THEN 1 ELSE 0) <= MaxOdd
        /\ Commit(ExecuteOutcome(ctx, b, st, action, confirm, fail))

\* agent.py 337-372: the re-output prompt, the second request, the second parse
Retry(ctx, b, st1) ==
    \E ctx3 \in {WithRetryPrompt(ctx)} :
    \E r2 \in ModelOutcomes :
    \E st \in {Requested(st1, ctx3, r2)} :
        /\ odd + st.odds <= MaxOdd
        /\ IF r2 = ModelError
              THEN Commit(RetryErrorOutcome(ctx3, b, st))
              ELSE \E ctx4 \in {Append(ctx3, create_assistant_message)} :
                      IF ParseFails(r2)
                      THEN Commit(ParseFailureOutcome(ctx4, b, st))
                      ELSE Act(ctx4, b, st, r2)

\* agent.py 283-373: the first request and the first parse
Request(b, st0) ==
    \E r1 \in ModelOutcomes :
    \E st \in {Requested(st0, b.context, r1)} :
        /\ odd + st.odds <= MaxOdd
        /\ IF r1 = ModelError
              THEN Commit(ModelErrorOutcome(b, st))
              ELSE \E ctx2 \in {AfterReply(b.context)} :
                      IF ~ParseFails(r1)
                      THEN Act(ctx2, b, st, r1)
                      ELSE IF RetryAllowed(0)
                      THEN Retry(ctx2, b, st)
                      ELSE Commit(ParseFailureOutcome(ctx2, b, st))

_execute_step(ctx0, count0, is_first, cost) ==
    \E data \in 1..NumScreens :
    \E current_hash \in {_screen_hash(data)} :
    \E unchanged \in {UnchangedAfter(current_hash)} :
    \E st \in {Started(is_first, unchanged,
                       cost + (IF ScreenMoved(current_hash) THEN 1 ELSE 0))} :
        /\ count0 < MaxSteps + 1
        /\ odd + st.odds <= MaxOdd
        /\ step_count' = count0 + 1
        /\ last_screen_hash' = current_hash
        /\ screen_unchanged_steps' = unchanged
        /\ IF StuckOverride(unchanged, stuck_warnings)
              THEN Commit(OverrideOutcome(ctx0, st))
              ELSE \E b \in {BuildMessages(ctx0, is_first, unchanged, stuck_warnings,
                                           recent_action_signatures)} :
                      Request(b, st)

(***************************************************************************)
(* The public API: run(task), step(task), reset().                         *)
(***************************************************************************)
\* Every call the caller makes on the agent after the first one is a departure.
CallCost == IF calls > 0 THEN 1 ELSE 0

\* agent.py 145-146, 152-153: result.message or "Task completed"
RunMessage(res) == IF res.message # None THEN res.message ELSE "Task completed"

\* The step run() just executed decides whether run() returns.
RunAfterStep ==
    IF result'.kind = "raised" THEN pc' = "idle" /\ run_result' = "raised"
    ELSE IF result'.finished THEN pc' = "idle" /\ run_result' = RunMessage(result')
    ELSE pc' = "running" /\ run_result' = "pending"

\* Variants of the loop condition: one that never ends the loop, one that runs
\* one iteration too many.
LoopGuardForever == TRUE

LoopGuardOffByOne == step_count <= max_steps

\* agent.py 149
LoopGuard == step_count < max_steps

\* run(task) up to the end of its first step (agent.py 139-146)
RunFirstStep ==
    /\ pc = "idle"
    /\ calls' = calls + 1
    /\ frames' = 1
    /\ _execute_step(<< >>, 0, TRUE, CallCost)
    /\ RunAfterStep
    /\ last' = "run"
    /\ UNCHANGED << max_steps, use_thirdparty_prompt, input, output >>

\* one iteration of run()'s while loop (agent.py 149-153)
RunLoopStep ==
    /\ pc = "running"
    /\ LoopGuard
    /\ frames' = frames + 1
    /\ _execute_step(context, step_count, FALSE, 0)
    /\ RunAfterStep
    /\ UNCHANGED << max_steps, use_thirdparty_prompt, calls, last, input, output >>

\* the loop condition fails (agent.py 149, 155)
RunExhausted ==
    /\ pc = "running"
    /\ ~LoopGuard
    /\ pc' = "idle"
    /\ run_result' = "Max steps reached"
    /\ UNCHANGED << max_steps, use_thirdparty_prompt, context, step_count, last_screen_hash,
                    screen_unchanged_steps, recent_action_signatures, stuck_warnings, ime,
                    result, obs, frames, calls, last, odd, input, output >>

\* step(task) (agent.py 157-174); the caller passes a task on the first step
ManualStep ==
    /\ pc = "idle"
    /\ calls' = calls + 1
    /\ _execute_step(context, step_count, Len(context) = 0, CallCost)
    /\ last' = "step"
    /\ UNCHANGED << max_steps, use_thirdparty_prompt, pc, run_result, frames, input, output >>

\* step() without a task on an empty context raises ValueError before any step
\* (agent.py 169-172)
StepWithoutTask ==
    /\ pc = "idle"
    /\ Len(context) = 0
    /\ odd + CallCost <= MaxOdd
    /\ odd' = odd + CallCost
    /\ calls' = calls + 1
    /\ last' = "rejected"
    /\ UNCHANGED << max_steps, use_thirdparty_prompt, context, step_count, last_screen_hash,
                    screen_unchanged_steps, recent_action_signatures, stuck_warnings, ime,
                    pc, result, run_result, obs, frames, input, output >>

\* reset() (agent.py 176-183)
Reset ==
    /\ pc = "idle"
    /\ calls > 0
    /\ odd < MaxOdd
    /\ odd' = odd + CallCost
    /\ calls' = calls + 1
    /\ context' = << >>
    /\ step_count' = 0
    /\ last_screen_hash' = None
    /\ screen_unchanged_steps' = 0
    /\ recent_action_signatures' = << >>
    /\ stuck_warnings' = 0
    /\ last' = "reset"
    /\ UNCHANGED << max_steps, use_thirdparty_prompt, ime, pc, result, run_result, obs,
                    frames, input, output >>

NoObs == [first |-> FALSE, unchanged |-> 0, warnings |-> 0, override |-> FALSE,
          requests |-> 0, stale |-> FALSE, bad |-> 0, error |-> "none",
          action |-> NoAction, dev |-> << >>, pushed |-> FALSE, ime_before |-> USER_IME,
          res |-> NoExecution]

\* No function has been called on its own.
NoCall == [kind |-> "none"]

\* PhoneAgent.__init__ (agent.py 72-94): the agent's fields after construction
Constructed ==
    /\ context = << >>
    /\ step_count = 0
    /\ last_screen_hash = None
    /\ screen_unchanged_steps = 0
    /\ recent_action_signatures = << >>
    /\ stuck_warnings = 0
    /\ ime = USER_IME
    /\ result = NoResult
    /\ run_result = "none"
    /\ obs = NoObs
    /\ frames = 0
    /\ calls = 0
    /\ last = "none"
    /\ odd = 0

\* PhoneAgent.__init__ under every configuration
Init ==
    /\ max_steps \in 0..MaxSteps
    /\ use_thirdparty_prompt \in BOOLEAN
    /\ Constructed
    /\ pc = "idle"
    /\ input = NoCall
    /\ output = NoCall

Next ==
    \/ RunFirstStep
    \/ RunLoopStep
    \/ RunExhausted
    \/ ManualStep
    \/ StepWithoutTask
    \/ Reset

Spec == Init /\ [][Next]_vars

(***************************************************************************)
(* parse_action on the text of a reply.  A text is a sequence of atoms: a   *)
(* punctuation character, a space, a tag, or a whole word or number (a run  *)
(* of letters or digits, which no step of the parser splits).  Characters   *)
(* outside ASCII are written by their code points.  The texts hold no       *)
(* backslash, newline or tab.                                               *)
(***************************************************************************)
DQ == "\""
SQ == "'"
LDQuo == "<U+201C>"         \* left double quotation mark
RDQuo == "<U+201D>"         \* right double quotation mark
LSQuo == "<U+2018>"
RSQuo == "<U+2019>"
FWComma == "<U+FF0C>"       \* full-width comma
FWColon == "<U+FF1A>"       \* full-width colon
Fence == "<fence>"           \* three backquotes

Tags == {"<think>", "</think>", "<answer>", "</answer>", "<tool_call>", "</tool_call>"}

Punctuation == {"(", ")", "[", "]", "{", "}", ",", "=", ":", ";", "+", " ", DQ, SQ, Fence,
                LDQuo, RDQuo, LSQuo, RSQuo, FWComma, FWColon} \cup Tags

\* Number atoms and the ints they spell.
NumberValue == ("0" :> 0) @@ ("1" :> 1) @@ ("2" :> 2) @@ ("100" :> 100) @@ ("200" :> 200)
               @@ ("500" :> 500) @@ ("1000" :> 1000)

IsWord(a) == a \notin Punctuation /\ a \notin DOMAIN NumberValue

\* str.join of the atoms
RECURSIVE Join(_)
Join(t) == IF t = << >> THEN "" ELSE t[1] \o Join(Tail(t))

\* str.lstrip, str.rstrip and str.strip of one character
RECURSIVE LStripChar(_, _)
LStripChar(t, ch) == IF t # << >> /\ t[1] = ch THEN LStripChar(Tail(t), ch) ELSE t

RECURSIVE RStrip(_, _)
RStrip(t, ch) ==
    IF t # << >> /\ t[Len(t)] = ch THEN RStrip(SubSeq(t, 1, Len(t) - 1), ch) ELSE t

StripChar(t, ch) == RStrip(LStripChar(t, ch), ch)

\* str.strip(): leading and trailing spaces go
StripSpaces(t) == StripChar(t, " ")

\* str.find / str.rfind of one atom: its first / last index, 0 if absent
Find(t, ch) == IF \E i \in 1..Len(t) : t[i] = ch
               THEN CHOOSE i \in 1..Len(t) : t[i] = ch /\ \A j \in 1..(i - 1) : t[j] # ch
               ELSE 0

RFind(t, ch) == IF \E i \in 1..Len(t) : t[i] = ch
                THEN CHOOSE i \in 1..Len(t) : t[i] = ch /\ \A j \in (i + 1)..Len(t) : t[j] # ch
                ELSE 0

\* handler.py 466-484: tags become spaces, a fenced block is unwrapped
_strip_wrappers(text) ==
    LET t == [i \in 1..Len(StripSpaces(text)) |->
                 IF StripSpaces(text)[i] \in Tags THEN " " ELSE StripSpaces(text)[i]]
        open == Find(t, Fence)
        after == SubSeq(t, open + 1, Len(t))
        body == IF after # << >> /\ after[1] = "python" THEN Tail(after) ELSE after
        close == Find(body, Fence)
    IN  IF open # 0 /\ close # 0
        THEN StripSpaces(SubSeq(body, 1, close - 1))
        ELSE StripSpaces(t)

\* handler.py 500-520: the index of the parenthesis that closes the call opened at or after i,
\* 0 if the text ends first.  Only ASCII quotes open a string here.
RECURSIVE CallEnd(_, _, _, _)
CallEnd(text, i, in_quote, depth) ==
    IF i > Len(text) THEN 0
    ELSE IF in_quote # ""
         THEN CallEnd(text, i + 1, IF text[i] = in_quote THEN "" ELSE in_quote, depth)
    ELSE IF text[i] \in {SQ, DQ} THEN CallEnd(text, i + 1, text[i], depth)
    ELSE IF text[i] = "(" THEN CallEnd(text, i + 1, "", depth + 1)
    ELSE IF text[i] = ")"
         THEN IF depth - 1 = 0 THEN i ELSE CallEnd(text, i + 1, "", depth - 1)
    ELSE CallEnd(text, i + 1, "", depth)

\* handler.py 486-522
_extract_first_call(text) ==
    LET starts == { i \in 1..(Len(text) - 1) : text[i] \in {"do", "finish"} /\ text[i + 1] = "(" }
    IN  IF starts = {} THEN text
        ELSE LET start_idx == CHOOSE i \in starts : \A j \in starts : i <= j
                 stop == CallEnd(text, start_idx, "", 0)
             IN  StripSpaces(SubSeq(text, start_idx, IF stop = 0 THEN Len(text) ELSE stop))

\* handler.py 526-534: the curly quotation marks and full-width punctuation, wherever they are
Plain(a) ==
    CASE a \in {LDQuo, RDQuo} -> DQ
      [] a \in {LSQuo, RSQuo} -> SQ
      [] a = FWComma -> ","
      [] a = FWColon -> ":"
      [] OTHER -> a

\* handler.py 537: the keys whose separator is repaired
RepairedKeys == {"element", "start", "end", "app", "text", "message", "duration"}

\* \s*:\s* at the head of t: what follows it, or t itself if it is not there
AfterColon(t) ==
    LET u == LStripChar(t, " ")
    IN  IF u # << >> /\ u[1] = ":" THEN LStripChar(Tail(u), " ") ELSE t

HasColon(t) == AfterColon(t) # t

\* handler.py 538: a quoted key and a colon become the key and =
RECURSIVE RepairQuoted(_)
RepairQuoted(t) ==
    IF t = << >> THEN << >>
    ELSE IF /\ Len(t) >= 4 /\ t[1] = DQ /\ t[2] \in RepairedKeys /\ t[3] = DQ
            /\ HasColon(SubSeq(t, 4, Len(t)))
         THEN << t[2], "=" >> \o RepairQuoted(AfterColon(SubSeq(t, 4, Len(t))))
    ELSE << t[1] >> \o RepairQuoted(Tail(t))

\* handler.py 539: a key, a closing quote and a colon become the key and =
\* (prev: the atom before t, for the word boundary)
RECURSIVE RepairHalfQuoted(_, _)
RepairHalfQuoted(t, prev) ==
    IF t = << >> THEN << >>
    ELSE IF /\ Len(t) >= 3 /\ t[1] \in RepairedKeys /\ ~IsWord(prev) /\ t[2] = DQ
            /\ HasColon(SubSeq(t, 3, Len(t)))
         THEN << t[1], "=" >> \o RepairHalfQuoted(AfterColon(SubSeq(t, 3, Len(t))), "=")
    ELSE << t[1] >> \o RepairHalfQuoted(Tail(t), t[1])

\* handler.py 540: a key and a colon become the key and =
RECURSIVE RepairBare(_, _)
RepairBare(t, prev) ==
    IF t = << >> THEN << >>
    ELSE IF /\ Len(t) >= 2 /\ t[1] \in RepairedKeys /\ ~IsWord(prev)
            /\ HasColon(Tail(t))
         THEN << t[1], "=" >> \o RepairBare(AfterColon(Tail(t)), "=")
    ELSE << t[1] >> \o RepairBare(Tail(t), t[1])

\* handler.py 524-544
_normalize_common_typos(text) ==
    LET t == [i \in 1..Len(StripSpaces(text)) |-> Plain(StripSpaces(text)[i])]
    IN  RStrip(RepairBare(RepairHalfQuoted(RepairQuoted(t), " "), " "), ";")

\* the first index at or after i that holds no space (Len(t) + 1 if there is none)
RECURSIVE Skip(_, _)
Skip(t, i) == IF i <= Len(t) /\ t[i] = " " THEN Skip(t, i + 1) ELSE i

At(t, i) == IF i >= 1 /\ i <= Len(t) THEN t[i] ELSE ""

\* the index of the quote that closes the string opened by q before i, 0 if none
RECURSIVE Closing(_, _, _)
Closing(t, i, q) ==
    IF i > Len(t) THEN 0 ELSE IF t[i] = q THEN i ELSE Closing(t, i + 1, q)

SyntaxError == [ok |-> FALSE, lit |-> FALSE, val |-> "", next |-> 0]
Parsed(lit, val, next) == [ok |-> TRUE, lit |-> lit, val |-> val, next |-> next]

(***************************************************************************)
(* ast.parse and ast.literal_eval on one expression starting at atom i:    *)
(* ok says the grammar accepts it, lit that literal_eval accepts it, val    *)
(* is the value of a literal, next the index after the expression.          *)
(* Strings, numbers, lists, names, calls and sums are the expressions of    *)
(* the texts.                                                               *)
(***************************************************************************)
RECURSIVE Expression(_, _)
RECURSIVE Primary(_, _)
RECURSIVE Items(_, _, _, _)

Items(t, i, closer, acc) ==
    LET Rest(e, k) ==
            IF ~e.ok THEN SyntaxError
            ELSE IF At(t, k) = ","
                 THEN Items(t, k + 1, closer, Parsed(acc.lit /\ e.lit, Append(acc.val, e.val), 0))
            ELSE IF At(t, k) = closer
                 THEN Parsed(acc.lit /\ e.lit, Append(acc.val, e.val), k + 1)
            ELSE SyntaxError
        Item(e) == Rest(e, Skip(t, e.next))
        From(j) ==
            IF At(t, j) = closer THEN Parsed(acc.lit, acc.val, j + 1)
            ELSE Item(Expression(t, j))
    IN  From(Skip(t, i))

Primary(t, i) ==
    LET String(j, close) ==
            IF close = 0 THEN SyntaxError
            ELSE Parsed(TRUE, Join(SubSeq(t, j + 1, close - 1)), close + 1)
        \* a list display is a literal if its items are; the arguments of a call make none
        Bracketed(items, literal) ==
            IF ~items.ok THEN SyntaxError
            ELSE IF literal THEN items
            ELSE Parsed(FALSE, "", items.next)
        Start(j, a, open) ==
            IF a \in {DQ, SQ} THEN String(j, Closing(t, j + 1, a))
            ELSE IF a \in DOMAIN NumberValue THEN Parsed(TRUE, NumberValue[a], j + 1)
            ELSE IF a = "[" \/ (a # "" /\ IsWord(a) /\ At(t, open) = "(")
                 THEN Bracketed(Items(t, IF a = "[" THEN j + 1 ELSE open + 1,
                                      IF a = "[" THEN "]" ELSE ")", Parsed(TRUE, << >>, 0)),
                                a = "[")
            ELSE IF a # "" /\ IsWord(a) THEN Parsed(FALSE, "", j + 1)
            ELSE SyntaxError
        From(j) == Start(j, At(t, j), Skip(t, j + 1))
    IN  From(Skip(t, i))

Expression(t, i) ==
    LET Sum(q) == IF q.ok THEN Parsed(FALSE, "", q.next) ELSE SyntaxError
        Rest(p, k) ==
            IF ~p.ok THEN SyntaxError
            ELSE IF At(t, k) = "+" THEN Sum(Expression(t, k + 1))
            ELSE p
        Left(p) == Rest(p, Skip(t, p.next))
    IN  Left(Primary(t, i))

\* ast.literal_eval(text): the whole text is one literal
literal_eval(t) ==
    LET Whole(e) ==
            IF e.ok /\ e.lit /\ Skip(t, e.next) > Len(t)
            THEN [ok |-> TRUE, val |-> e.val]
            ELSE [ok |-> FALSE, val |-> ""]
    IN  Whole(Expression(t, 1))

Failed == [ok |-> FALSE, action |-> << >>]
Action(payload) == [ok |-> TRUE, action |-> payload]

\* handler.py 578-582: the keywords of the call, in order; a positional argument is
\* left out, one that follows a keyword is a syntax error
RECURSIVE Keywords(_, _, _, _)
Keywords(t, i, action, seen) ==
    LET Stop(ok, bound, next) == [ok |-> ok, action |-> bound, next |-> next]
        Rest(keyword, bound, k) ==
            IF At(t, k) = "," THEN Keywords(t, k + 1, bound, seen \/ keyword)
            ELSE IF At(t, k) = ")" THEN Stop(TRUE, bound, k + 1)
            ELSE Stop(FALSE, action, 0)
        Bound(j, keyword, e) ==
            IF ~e.ok \/ (~keyword /\ seen) \/ (keyword /\ At(t, j) \in DOMAIN action)
            THEN Stop(FALSE, action, 0)
            ELSE IF keyword /\ ~e.lit THEN Stop(FALSE, action, 0)
            ELSE Rest(keyword, IF keyword THEN (At(t, j) :> e.val) @@ action ELSE action,
                      Skip(t, e.next))
        Argument(j, eq, keyword) ==
            Bound(j, keyword, Expression(t, IF keyword THEN eq + 1 ELSE j))
        Named(j, eq) == Argument(j, eq, At(t, j) # "" /\ IsWord(At(t, j)) /\ At(t, eq) = "=")
        From(j) ==
            IF At(t, j) = ")" THEN Stop(TRUE, action, j + 1) ELSE Named(j, Skip(t, j + 1))
    IN  From(Skip(t, i))

\* handler.py 566-584: the text is one call of do or finish with literal keywords
StrictCall(t) ==
    LET Called(j, open, kw) ==
            IF /\ At(t, j) \in {"do", "finish"}
               /\ At(t, open) = "("
               /\ kw.ok
               /\ Skip(t, kw.next) > Len(t)
            THEN Action(kw.action)
            ELSE Failed
        Opened(j, open) ==
            Called(j, open,
                   Keywords(t, open + 1,
                            [_metadata |-> IF At(t, j) = "do" THEN "do" ELSE "finish"], FALSE))
        From(j) == Opened(j, Skip(t, j + 1))
    IN  From(Skip(t, 1))

\* handler.py 401-415
_parse_loose_string(value) ==
    LET v == StripSpaces(value)
        end == RFind(v, v[1])
        inner == IF end > 1 THEN SubSeq(v, 2, end - 1) ELSE Tail(v)
    IN  IF v = << >> THEN ""
        ELSE IF v[1] \in {SQ, DQ} THEN Join(StripSpaces(inner))
        ELSE Join(v)

\* handler.py 348-399: the parts between the commas that are outside quotes, brackets
\* and braces; parentheses are not counted
RECURSIVE SplitFrom(_, _, _, _, _, _)
SplitFrom(s, i, buf, in_quote, depth_square, depth_curly) ==
    LET ch == s[i]
        flush(parts) == IF StripSpaces(buf) = << >> THEN parts ELSE << StripSpaces(buf) >> \o parts
    IN  IF i > Len(s) THEN flush(<< >>)
        ELSE IF in_quote # ""
             THEN SplitFrom(s, i + 1, Append(buf, ch), IF ch = in_quote THEN "" ELSE in_quote,
                            depth_square, depth_curly)
        ELSE IF ch \in {SQ, DQ}
             THEN SplitFrom(s, i + 1, Append(buf, ch), ch, depth_square, depth_curly)
        ELSE IF ch = "["
             THEN SplitFrom(s, i + 1, Append(buf, ch), "", depth_square + 1, depth_curly)
        ELSE IF ch = "]"
             THEN SplitFrom(s, i + 1, Append(buf, ch), "",
                            IF depth_square > 0 THEN depth_square - 1 ELSE 0, depth_curly)
        ELSE IF ch = "{"
             THEN SplitFrom(s, i + 1, Append(buf, ch), "", depth_square, depth_curly + 1)
        ELSE IF ch = "}"
             THEN SplitFrom(s, i + 1, Append(buf, ch), "", depth_square,
                            IF depth_curly > 0 THEN depth_curly - 1 ELSE 0)
        ELSE IF ch = "," /\ depth_square = 0 /\ depth_curly = 0
             THEN flush(SplitFrom(s, i + 1, << >>, "", 0, 0))
        ELSE SplitFrom(s, i + 1, Append(buf, ch), "", depth_square, depth_curly)

_split_top_level_args(s) == SplitFrom(s, 1, << >>, "", 0, 0)

\* handler.py 448: the keys whose value is read as a loose string
LooseKeys == {"message", "text", "app", "action", "duration"}

\* handler.py 435-462: the parts, each bound in turn
RECURSIVE BindParts(_, _)
BindParts(parts, payload) ==
    LET Value(key, raw_val, literal) ==
            IF key \in LooseKeys \/ ~literal.ok THEN _parse_loose_string(raw_val)
            ELSE literal.val
        Pair(key, raw_val) ==
            BindParts(Tail(parts), (key :> Value(key, raw_val, literal_eval(raw_val))) @@ payload)
        Cut(part, cut) ==
            IF cut = 0 THEN BindParts(Tail(parts), payload)
            ELSE Pair(Join(StripChar(StripChar(StripSpaces(SubSeq(part, 1, cut - 1)), DQ), SQ)),
                      StripSpaces(SubSeq(part, cut + 1, Len(part))))
        Part(part) == Cut(part, IF Find(part, "=") # 0 THEN Find(part, "=") ELSE Find(part, ":"))
    IN  IF parts = << >> THEN payload ELSE Part(parts[1])

\* handler.py 417-464
_fallback_parse_call(call_text) ==
    LET t == StripSpaces(call_text)
        open_idx == Find(t, "(")
        close_idx == RFind(t, ")")
        args_str == StripSpaces(SubSeq(t, open_idx + 1, close_idx - 1))
        metadata == IF t[1] = "do" THEN "do" ELSE "finish"
    IN  IF ~(Len(t) >= 2 /\ t[1] \in {"do", "finish"} /\ t[2] = "(") THEN Failed
        ELSE IF close_idx = 0 \/ close_idx <= open_idx THEN Failed
        ELSE Action(BindParts(_split_top_level_args(args_str), [_metadata |-> metadata]))

(***************************************************************************)
(* json.loads of a text: objects, lists, double-quoted strings, numbers and *)
(* the words true and false.                                                *)
(***************************************************************************)
RECURSIVE JsonValue(_, _)
RECURSIVE JsonItems(_, _, _)
RECURSIVE JsonMembers(_, _, _)

JsonItems(t, i, acc) ==
    LET e == JsonValue(t, i)
        k == Skip(t, e.next)
    IN  IF ~e.ok THEN SyntaxError
        ELSE IF At(t, k) = "," THEN JsonItems(t, k + 1, Append(acc, e.val))
        ELSE IF At(t, k) = "]" THEN Parsed(TRUE, Append(acc, e.val), k + 1)
        ELSE SyntaxError

JsonMembers(t, i, acc) ==
    LET j == Skip(t, i)
        close == Closing(t, j + 1, DQ)
        colon == Skip(t, close + 1)
        e == JsonValue(t, colon + 1)
        k == Skip(t, e.next)
        bound == (Join(SubSeq(t, j + 1, close - 1)) :> e.val) @@ acc
    IN  IF At(t, j) # DQ \/ close = 0 \/ At(t, colon) # ":" THEN SyntaxError
        ELSE IF ~e.ok THEN SyntaxError
        ELSE IF At(t, k) = "," THEN JsonMembers(t, k + 1, bound)
        ELSE IF At(t, k) = "}" THEN Parsed(TRUE, bound, k + 1)
        ELSE SyntaxError

JsonValue(t, i) ==
    LET j == Skip(t, i)
        a == At(t, j)
        close == Closing(t, j + 1, DQ)
    IN  IF a = DQ
        THEN IF close = 0 THEN SyntaxError
             ELSE Parsed(TRUE, Join(SubSeq(t, j + 1, close - 1)), close + 1)
        ELSE IF a \in DOMAIN NumberValue THEN Parsed(TRUE, NumberValue[a], j + 1)
        ELSE IF a \in {"true", "false"} THEN Parsed(TRUE, a = "true", j + 1)
        ELSE IF a = "["
             THEN IF At(t, Skip(t, j + 1)) = "]" THEN Parsed(TRUE, << >>, Skip(t, j + 1) + 1)
                  ELSE JsonItems(t, j + 1, << >>)
        ELSE IF a = "{"
             THEN IF At(t, Skip(t, j + 1)) = "}" THEN Parsed(TRUE, << >>, Skip(t, j + 1) + 1)
                  ELSE JsonMembers(t, j + 1, << >>)
        ELSE SyntaxError

\* A variant that takes any object with a message for a finish record.
JsonActionFinishOnMessage(response) ==
    LET e == JsonValue(response, 1)
        payload == e.val
        metadata == IF "message" \in DOMAIN payload THEN "finish" ELSE "do"
    IN  IF ~(e.ok /\ Skip(response, e.next) > Len(response)) THEN Failed
        ELSE IF "_metadata" \in DOMAIN payload THEN Action(payload)
        ELSE Action(("_metadata" :> metadata) @@ payload)

\* handler.py 550-560: a text in braces that is a JSON object is the action
JsonAction(response) ==
    LET e == JsonValue(response, 1)
        payload == e.val
        metadata == IF "message" \in DOMAIN payload /\ "action" \notin DOMAIN payload
                    THEN "finish" ELSE "do"
    IN  IF ~(e.ok /\ Skip(response, e.next) > Len(response)) THEN Failed
        ELSE IF "_metadata" \in DOMAIN payload THEN Action(payload)
        ELSE Action(("_metadata" :> metadata) @@ payload)

\* handler.py 333-592, from the text of the reply to the action or a ValueError
ParseText(raw) ==
    LET Strict(call, action) == IF action.ok THEN action ELSE _fallback_parse_call(call)
        Call(call) == Strict(call, StrictCall(call))
        Json(response, action) ==
            IF action.ok THEN action
            ELSE Call(_normalize_common_typos(_extract_first_call(response)))
        Stripped(response) ==
            Json(response,
                 IF response # << >> /\ response[1] = "{" /\ response[Len(response)] = "}"
                 THEN JsonAction(response)
                 ELSE Failed)
    IN  Stripped(_strip_wrappers(raw))

(***************************************************************************)
(* ActionHandler.execute called on its own: one call, on every action      *)
(* record, screen size, callback answer and device failure of ExecInputs.   *)
(***************************************************************************)
PointerNames == {"Tap", "Double Tap", "Long Press"}

ExecInputs ==
    LET
        ElementSamples == { << 0, 0 >>, << 205, 205 >>, << 500, 999 >>, << 999, 500 >>,
                            << MaxRel, MaxRel >> }

        PointerActions ==
            { do([action |-> name, element |-> e]) : name \in PointerNames, e \in ElementSamples }
            \cup { do([action |-> name, element |-> e, message |-> "pay"]) :
                       name \in PointerNames, e \in ElementSamples }
            \cup { do([action |-> name]) : name \in PointerNames }

        SwipeActions ==
            { do([action |-> "Swipe", start |-> a, end |-> b]) :
                  a \in {<< 500, 999 >>, << 205, 205 >>}, b \in {<< 500, 1 >>, << MaxRel, MaxRel >>} }
            \cup { do([action |-> "Swipe", start |-> << 500, 999 >>]) }

        OtherActions ==
            { do(TypeHi), do([action |-> "Type_Name", text |-> "Ann"]), do(TakeOverLogin),
              do([action |-> "Take_over"]), do([action |-> "Launch", app |-> "WeChat"]),
              do([action |-> "Launch", app |-> "Nowhere"]), do([action |-> "Launch"]),
              do([action |-> "Back"]), do([action |-> "Home"]),
              do([action |-> "Wait", duration |-> "2 seconds"]), do([action |-> "Note"]),
              do([action |-> "Call_API"]), do([action |-> "Interact"]), do([action |-> "Fly"]),
              do(ListNamed), finish(FinishDone), FinishDone @@ ("_metadata" :> "other") }

        ExecActions == PointerActions \cup SwipeActions \cup OtherActions
    IN  { [action |-> a, width |-> size[1], height |-> size[2], ime |-> USER_IME,
           confirm |-> c, fail |-> f] :
              a \in ExecActions, size \in ScreenSizes, c \in BOOLEAN, f \in 0..4 }

\* The callback is asked only about an action that carries a message, and a device
\* call can fail only if the handler makes it.
ExecInit ==
    /\ max_steps = 0
    /\ use_thirdparty_prompt = FALSE
    /\ Constructed
    /\ pc = "execute"
    /\ input \in { i \in ExecInputs : /\ i.fail \in FailChoices(i.action)
                                       /\ (~i.confirm => "message" \in DOMAIN i.action) }
    /\ output = NoCall

ExecuteCall ==
    /\ pc = "execute"
    /\ pc' = "executed"
    /\ output' = execute(input.action, input.width, input.height, input.ime,
                          input.confirm, input.fail)
    /\ UNCHANGED << max_steps, use_thirdparty_prompt, context, step_count, last_screen_hash,
                    screen_unchanged_steps, recent_action_signatures, stuck_warnings, ime,
                    result, run_result, obs, frames, calls, last, odd, input >>

ExecNext == ExecuteCall

ExecSpec == ExecInit /\ [][ExecNext]_vars

(***************************************************************************)
(* parse_action called on its own: the replies are calls and JSON objects   *)
(* in the spellings a model produces, and texts that are neither.           *)
(***************************************************************************)
\* 你好 and 世界
NiHao == "<U+4F60><U+597D>"
ShiJie == "<U+4E16><U+754C>"

ParseInputs ==
    LET
        QuoteStyles == {"ascii", "curly", "single"}

        Quoted(style, content) ==
            CASE style = "ascii" -> << DQ >> \o content \o << DQ >>
              [] style = "curly" -> << LDQuo >> \o content \o << RDQuo >>
              [] style = "single" -> << SQ >> \o content \o << SQ >>

        Separators == { << "," >>, << ",", " " >>, << FWComma >> }

        CalledNames == {"do", "finish", "go"}

        NameSamples == {"Tap", "Type", "Fly"}

        ContentSamples == { << "hi" >>, << NiHao, FWComma, ShiJie >>, << "a", FWColon, "b" >>,
                            << "message", ":", "hi" >>, << "it", SQ, "s" >> }

        ValueSamples == { << "[", "1", ",", "2", "]" >>, << "[", "500", ",", " ", "1000", "]" >>,
                          << "100" >>, << "foo" >>, << "f", "(", "1", ")" >>, << "1", "+", "2" >>,
                          << "[", "1", ",", "foo", "]" >> }

        Wrappers == {"none", "answer", "think", "semicolon", "fence"}

        Wrapped(wrapper, call) ==
            CASE wrapper = "none" -> call
              [] wrapper = "answer" -> << "<answer>" >> \o call \o << "</answer>" >>
              [] wrapper = "think" -> << "<think>", "ok", "</think>", " " >> \o call
              [] wrapper = "semicolon" -> call \o << ";" >>
              [] wrapper = "fence" -> << Fence, "python", " " >> \o call \o << " ", Fence >>

        Reply(form, text, fn, value, content) ==
            [kind |-> "reply", form |-> form, text |-> text, fn |-> fn, value |-> value,
             content |-> content]

        \* fn(action=<name>, element=<value>)
        ElementReplies ==
            { Reply("element",
                    Wrapped(w, << fn, "(", "action", "=" >> \o Quoted(q, << name >>) \o sep
                               \o << "element", "=" >> \o value \o << ")" >>),
                    fn, value, << >>) :
                  w \in Wrappers, fn \in CalledNames, q \in {"ascii", "curly"}, name \in NameSamples,
                  sep \in Separators, value \in ValueSamples }

        \* fn(action=<Type>, text=<content>)
        TypeReplies ==
            { Reply("type",
                    Wrapped(w, << fn, "(", "action", "=" >> \o Quoted(q, << "Type" >>) \o sep
                               \o << "text", eq >> \o Quoted(q, content) \o << ")" >>),
                    fn, << >>, content) :
                  w \in {"none", "answer"}, fn \in CalledNames, q \in QuoteStyles, sep \in Separators,
                  eq \in {"=", ":"}, content \in ContentSamples }

        \* fn(message=<content>)
        MessageReplies ==
            { Reply("message", << fn, "(", "message", eq >> \o Quoted(q, content) \o << ")" >>,
                    fn, << >>, content) :
                  fn \in CalledNames, q \in QuoteStyles, eq \in {"=", ":"}, content \in ContentSamples }

        JsonReplies ==
            { Reply("json", << "{", DQ, "action", DQ, ":", " ", DQ, name, DQ, "}" >>, "json", << >>, << >>) :
                  name \in NameSamples }
            \cup { Reply("json", << "{", DQ, "action", DQ, ":", DQ, name, DQ, ",", " ", DQ, "element", DQ,
                                    ":" >> \o value \o << "}" >>, "json", value, << >>) :
                       name \in NameSamples, value \in ValueSamples }
            \cup { Reply("json", << "{", DQ, "message", DQ, ":", DQ, "done", DQ, "}" >>, "json", << >>, << >>) }
            \cup { Reply("json", text, "json", << >>, << >>) :
                       text \in { << "<answer>", "{", DQ, "message", DQ, ":", DQ, "done", DQ, "}",
                                     "</answer>" >>,
                                  << "{", DQ, "action", DQ, ":", DQ, "Tap", DQ, ",", " ",
                                     DQ, "message", DQ, ":", DQ, "pay", DQ, "}" >>,
                                  << "{", DQ, "_metadata", DQ, ":", DQ, "do", DQ, ",", " ",
                                     DQ, "message", DQ, ":", DQ, "done", DQ, "}" >>,
                                  << "{", DQ, "_metadata", DQ, ":", DQ, "finish", DQ, ",", " ",
                                     DQ, "action", DQ, ":", DQ, "Tap", DQ, "}" >>,
                                  << "{", DQ, "_metadata", DQ, ":", DQ, "other", DQ, ",", " ",
                                     DQ, "action", DQ, ":", DQ, "Tap", DQ, "}" >> } }

        OtherReplies ==
            { Reply("other", text, "none", << >>, << >>) :
                  text \in { << "sorry" >>, << >>, << "do", "(", ")" >>, << "do", "(" >>,
                             << "finish", "(", ")" >>, << "{", "}" >>,
                             << "do", "(", "action", ":", DQ, "Fly", DQ, ")" >> } }
    IN  ElementReplies \cup TypeReplies \cup MessageReplies \cup JsonReplies \cup OtherReplies

ParseInit ==
    /\ max_steps = 0
    /\ use_thirdparty_prompt = FALSE
    /\ Constructed
    /\ pc = "parse"
    /\ input \in ParseInputs
    /\ output = NoCall

ParseCall ==
    /\ pc = "parse"
    /\ pc' = "parsed"
    /\ output' = ParseText(input.text)
    /\ UNCHANGED << max_steps, use_thirdparty_prompt, context, step_count, last_screen_hash,
                    screen_unchanged_steps, recent_action_signatures, stuck_warnings, ime,
                    result, run_result, obs, frames, calls, last, odd, input >>

ParseNext == ParseCall

ParseSpec == ParseInit /\ [][ParseNext]_vars

(***************************************************************************)
(* The pure functions of the loop called on their own: the coordinate       *)
(* scaling there and back, the signature of a parsed reply, and the loop    *)
(* detector.                                                                *)
(***************************************************************************)
\* The replies whose signature is taken, with the call they spell:
\* form is the action name (finish for a finish call), args the texts of its arguments.
SignatureInputs ==
    LET Numbers == DOMAIN NumberValue
        Gaps == { << >>, << " " >> }
        ListText(x, y, gap) == << "[", x, "," >> \o gap \o << y, "]" >>
        Call(form, args, text) == [kind |-> "signature", form |-> form, args |-> args, text |-> text]
        Do(name, rest) == << "do", "(", "action", "=", DQ, name, DQ >> \o rest \o << ")" >>
        Keyword(key, value) == << ",", " ", key, "=" >> \o value
    IN  { Call("Tap", << x, y >>, Do("Tap", Keyword("element", ListText(x, y, gap)))) :
              x \in Numbers, y \in Numbers, gap \in Gaps }
        \cup { Call("Swipe", << x, "1000", "500", y >>,
                    Do("Swipe", Keyword("start", ListText(x, "1000", gap))
                                    \o Keyword("end", ListText("500", y, gap)))) :
                   x \in Numbers, y \in Numbers, gap \in Gaps }
        \cup { Call("Type", << "hi" >>, Do("Type", Keyword("text", << DQ, "hi", DQ >>))),
               Call("Launch", << "WeChat" >>, Do("Launch", Keyword("app", << DQ, "WeChat", DQ >>))),
               Call("Wait", << "2 seconds" >>,
                    Do("Wait", Keyword("duration", << DQ, "2", " ", "seconds", DQ >>))),
               Call("Take_over", << "login" >>,
                    Do("Take_over", Keyword("message", << DQ, "login", DQ >>))),
               Call("Back", << >>, Do("Back", << >>)),
               Call("Home", << >>, Do("Home", << >>)),
               Call("Type_Name", << "Ann" >>, Do("Type_Name", Keyword("text", << DQ, "Ann", DQ >>))),
               Call("finish", << "done" >>,
                    << "finish", "(", "message", "=", DQ, "done", DQ, ")" >>) }

\* launcher.py 248-260: a URL is a sequence of atoms, the scheme and host in one atom,
\* each path segment with its leading slash in one atom, a trailing slash on its own.
normalize_openai_base_url(base_url) ==
    LET Normalized(raw) ==
            IF raw = << >> THEN raw
            ELSE IF raw[Len(raw)] = "/v1" THEN raw
            ELSE raw \o << "/v1" >>
    IN  Normalized(RStrip(StripSpaces(base_url), "/"))

CallInit ==
    /\ max_steps = 0
    /\ use_thirdparty_prompt = FALSE
    /\ Constructed
    /\ pc = "call"
    /\ output = NoCall
    /\ \/ input \in { [kind |-> "scale", element |-> << x, y >>, width |-> w, height |-> h] :
                         x \in Rels, y \in Rels, w \in Dims, h \in Dims }
       \/ input \in SignatureInputs
       \/ input \in { [kind |-> "loop", signatures |-> sigs] :
                         sigs \in UNION { [1..n -> {"A", "B", "C"}] : n \in 0..MaxSignatures } }
       \/ input \in LET Hosts == {"http://127.0.0.1:1234", "https://open.bigmodel.cn"}
                         Segments == {"/api", "/paas", "/v4", "/v1"}
                         Paths == UNION { [1..n -> Segments] : n \in 0..MaxSegments }
                         Leads == { << >>, << " " >> }
                         Trails == { << >>, << "/" >>, << "/", "/" >>, << " " >>, << "/", " " >> }
                     IN  { [kind |-> "url", url |-> lead \o << host >> \o path \o trail] :
                               lead \in Leads, host \in Hosts, path \in Paths, trail \in Trails }
                         \cup { [kind |-> "url", url |-> lead] : lead \in Leads }

\* handler.py 111-117, and the way back
ScaleCall ==
    /\ pc = "call" /\ input.kind = "scale"
    /\ pc' = "called"
    /\ \E pixels \in {_convert_relative_to_absolute(input.element, input.width, input.height)} :
           output' = [pixels |-> pixels,
                      back |-> _convert_absolute_to_relative(pixels, input.width, input.height)]
    /\ UNCHANGED << max_steps, use_thirdparty_prompt, context, step_count, last_screen_hash,
                    screen_unchanged_steps, recent_action_signatures, stuck_warnings, ime,
                    result, run_result, obs, frames, calls, last, odd, input >>

\* agent.py 327 and 385: the reply is parsed and the signature of the action taken
SignatureCall ==
    /\ pc = "call" /\ input.kind = "signature"
    /\ pc' = "called"
    /\ \E parsed \in {ParseText(input.text)} :
           output' = [parsed |-> parsed,
                      signature |-> IF parsed.ok THEN _action_signature(parsed.action) ELSE None]
    /\ UNCHANGED << max_steps, use_thirdparty_prompt, context, step_count, last_screen_hash,
                    screen_unchanged_steps, recent_action_signatures, stuck_warnings, ime,
                    result, run_result, obs, frames, calls, last, odd, input >>

\* agent.py 119-127
LoopCall ==
    /\ pc = "call" /\ input.kind = "loop"
    /\ pc' = "called"
    /\ output' = [loop |-> _looks_like_loop(input.signatures)]
    /\ UNCHANGED << max_steps, use_thirdparty_prompt, context, step_count, last_screen_hash,
                    screen_unchanged_steps, recent_action_signatures, stuck_warnings, ime,
                    result, run_result, obs, frames, calls, last, odd, input >>

\* launcher.py 811-818: the base URL handed to the agent, and the same normalised
\* once more
UrlCall ==
    /\ pc = "call" /\ input.kind = "url"
    /\ pc' = "called"
    /\ output' = [url |-> normalize_openai_base_url(input.url),
                  again |-> normalize_openai_base_url(normalize_openai_base_url(input.url))]
    /\ UNCHANGED << max_steps, use_thirdparty_prompt, context, step_count, last_screen_hash,
                    screen_unchanged_steps, recent_action_signatures, stuck_warnings, ime,
                    result, run_result, obs, frames, calls, last, odd, input >>

CallNext == ScaleCall \/ SignatureCall \/ LoopCall \/ UrlCall

CallSpec == CallInit /\ [][CallNext]_vars

(***************************************************************************)
(* The launcher's configuration file (src/launcher.py).  CONFIG and the     *)
(* JSON object of the file map field names to values; a value is a pair of  *)
(* its JSON type and its content, and a string is a sequence of atoms as    *)
(* above.  Two launchers whose configurations differ in their keys only     *)
(* run side by side, each with its own copy of the file, under the same     *)
(* environment.                                                             *)
(***************************************************************************)
StrOf(atoms) == << "str", atoms >>
IntOf(n) == << "int", n >>
BoolOf(b) == << "bool", b >>
Null == << "null", 0 >>

SecretFields == {"api_key", "backup_api_key"}

\* launcher.py 25-29: raw is the value of the variable, Null if it is not set;
\* str.lower is modelled on the spellings of EnvSamples
_env_truthy(raw, default) ==
    LET lower == ("TRUE" :> "true") @@ ("On" :> "on") @@ ("1" :> "1") @@ ("true" :> "true")
                 @@ ("yes" :> "yes") @@ ("y" :> "y") @@ ("on" :> "on") @@ ("0" :> "0")
                 @@ ("false" :> "false") @@ ("no" :> "no")
        Truthy(word) == Len(word) = 1 /\ lower[word[1]] \in {"1", "true", "yes", "y", "on"}
    IN  IF raw = Null THEN default ELSE Truthy(StripSpaces(raw[2]))

\* launcher.py 79-80, on the value of OPEN_AUTOGLM_ALLOW_CONFIG_FILE_SECRETS
allow_config_file_secrets(raw) == _env_truthy(raw, FALSE)

\* A variant that writes every field whatever the environment says.
save_config_to_file_unredacted(config, raw) == [kind |-> "object", data |-> config]

\* launcher.py 338-358: the file the call leaves on disk when the write goes through
save_config_to_file(config, raw) ==
    [kind |-> "object",
     data |-> IF allow_config_file_secrets(raw) THEN config
              ELSE [k \in DOMAIN config \ SecretFields |-> config[k]]]

\* launcher.py 287-336: CONFIG after the call.  A missing file, a file that is not
\* JSON (the call returns False) and a JSON value that is not an object (data.get
\* raises) leave CONFIG as it was.
load_config_from_file(config, file, raw) ==
    LET data == file.data
        IsStr(k) == k \in DOMAIN data /\ data[k][1] = "str"
        IsBool(k) == k \in DOMAIN data /\ data[k][1] = "bool"
        Stripped(k) == StripSpaces(data[k][2])
        \* int(data["max_steps"]): 0 if it raises
        AsInt(x) == CASE x[1] = "int" -> x[2]
                      [] x[1] = "bool" -> IF x[2] THEN 1 ELSE 0
                      [] x[1] = "str" /\ Len(StripSpaces(x[2])) = 1
                                     /\ StripSpaces(x[2])[1] \in DOMAIN NumberValue ->
                             NumberValue[StripSpaces(x[2])[1]]
                      [] OTHER -> 0
        Loaded(k) ==
            CASE k \in {"base_url", "model"} ->
                     IF IsStr(k) /\ Stripped(k) # << >> THEN StrOf(Stripped(k)) ELSE config[k]
              [] k \in SecretFields ->
                     IF allow_config_file_secrets(raw) /\ IsStr(k) THEN StrOf(Stripped(k))
                     ELSE config[k]
              [] k = "device_id" ->
                     IF IsStr(k) THEN (IF Stripped(k) # << >> THEN StrOf(Stripped(k)) ELSE Null)
                     ELSE config[k]
              [] k = "lang" ->
                     IF IsStr(k) /\ data[k][2] \in {<< "cn" >>, << "en" >>} THEN data[k]
                     ELSE config[k]
              [] k = "max_steps" ->
                     IF k \in DOMAIN data /\ AsInt(data[k]) > 0 THEN IntOf(AsInt(data[k]))
                     ELSE config[k]
              [] OTHER -> IF IsBool(k) THEN data[k] ELSE config[k]
    IN  IF file.kind # "object" THEN config ELSE [k \in DOMAIN config |-> Loaded(k)]

\* The environment, the configurations and the file the launchers start with.
LauncherInputs ==
    LET EnvSamples == { Null, StrOf(<< >>), StrOf(<< "0" >>), StrOf(<< "false" >>), StrOf(<< "1" >>),
                        StrOf(<< " ", "TRUE", " " >>), StrOf(<< "On" >>) }
        KeySamples == { << >>, << "sk-A" >>, << "sk-B" >> }
        Config(url, key, backup, steps) ==
            [base_url |-> StrOf(url), model |-> StrOf(<< "autoglm-phone" >>), api_key |-> StrOf(key),
             backup_api_key |-> StrOf(backup), device_id |-> Null, lang |-> StrOf(<< "cn" >>),
             max_steps |-> IntOf(steps), use_thirdparty_prompt |-> BoolOf(FALSE),
             thirdparty_thinking |-> BoolOf(TRUE), compress_image |-> BoolOf(FALSE)]
        File(kind, data) == [kind |-> kind, data |-> data]
        Unread == [unread |-> Null]
        FileSamples ==
            { File("absent", Unread), File("garbage", Unread), File("array", Unread),
              File("object", [comment |-> StrOf(<< "mine" >>)]),
              File("object", [api_key |-> StrOf(<< " ", "sk-F", " " >>),
                              backup_api_key |-> IntOf(7),
                              base_url |-> StrOf(<< " ", "http://127.0.0.1:8080", " " >>),
                              model |-> StrOf(<< " " >>), device_id |-> StrOf(<< " " >>),
                              lang |-> StrOf(<< "fr" >>), max_steps |-> IntOf(0),
                              use_thirdparty_prompt |-> StrOf(<< "yes" >>)]),
              File("object", [api_key |-> Null, backup_api_key |-> StrOf(<< "sk-G" >>),
                              model |-> StrOf(<< "glm" >>), device_id |-> StrOf(<< "emulator-5554" >>),
                              lang |-> StrOf(<< "en" >>), max_steps |-> StrOf(<< " ", "2" >>),
                              use_thirdparty_prompt |-> BoolOf(TRUE),
                              compress_image |-> BoolOf(TRUE)]) }
    IN  { [kind |-> "launcher", env |-> raw, file |-> file,
           config |-> Config(url, key, backup, steps),
           twin |-> Config(url, twin_key, twin_backup, steps)] :
              raw \in EnvSamples, file \in FileSamples,
              url \in { << "https://open.bigmodel.cn/api/paas/v4" >> }, steps \in {100},
              key \in KeySamples, backup \in { << >>, << "sk-C" >> },
              twin_key \in KeySamples, twin_backup \in { << >>, << "sk-D" >> } }

\* The launchers as they are after module import: CONFIG built, the file on disk
Launched(i) ==
    [config |-> i.config, twin |-> i.twin, file |-> i.file, twin_file |-> i.file,
     saves |-> 0, loads |-> 0]

LauncherInit ==
    /\ max_steps = 0
    /\ use_thirdparty_prompt = FALSE
    /\ Constructed
    /\ pc = "launcher"
    /\ input \in LauncherInputs
    /\ output = Launched(input)

\* Each launcher calls save_config_to_file()
SaveConfig ==
    /\ pc = "launcher"
    /\ output.saves < MaxCalls
    /\ output' = [output EXCEPT !.file = save_config_to_file(output.config, input.env),
                                !.twin_file = save_config_to_file(output.twin, input.env),
                                !.saves = @ + 1]
    /\ UNCHANGED << max_steps, use_thirdparty_prompt, context, step_count, last_screen_hash,
                    screen_unchanged_steps, recent_action_signatures, stuck_warnings, ime,
                    pc, result, run_result, obs, frames, calls, last, odd, input >>

\* Each launcher calls load_config_from_file()
LoadConfig ==
    /\ pc = "launcher"
    /\ output.loads < MaxCalls
    /\ output' = [output EXCEPT
                      !.config = load_config_from_file(output.config, output.file, input.env),
                      !.twin = load_config_from_file(output.twin, output.twin_file, input.env),
                      !.loads = @ + 1]
    /\ UNCHANGED << max_steps, use_thirdparty_prompt, context, step_count, last_screen_hash,
                    screen_unchanged_steps, recent_action_signatures, stuck_warnings, ime,
                    pc, result, run_result, obs, frames, calls, last, odd, input >>

LauncherNext == SaveConfig \/ LoadConfig

LauncherSpec == LauncherInit /\ [][LauncherNext]_vars

(***************************************************************************)
(* Properties.                                                             *)
(***************************************************************************)
\* The last transition was a call of _execute_step (through run() or step()).
StepJustRan == last \in {"run", "step"} /\ result.kind # "none"

\* run() has just returned a value.
RunReturned == last = "run" /\ pc = "idle" /\ result.kind = "result"

ParseFailed == result.kind = "result" /\ result.message = "parse failure"

\* C1: step_count <= max_steps in every reachable state, for every max_steps and
\* every sequence of run()/step() calls.
C1_StepCountWithinBudget == step_count <= max_steps

\* C2: run() terminates when every call it makes returns, and captures at most
\* max_steps + 1 screenshots before it does: inside the loop the step counter is
\* bounded by max_steps (by 1 when max_steps = 0: the first step is unconditional)
\* and grows with every iteration, one screenshot is taken per
\* step, and the loop can always take its next iteration or leave.
C2_RunTerminates ==
    /\ [](frames <= max_steps + 1)
    /\ [](pc = "running" => (frames = step_count /\ (step_count <= max_steps \/ step_count = 1)))
    /\ [][(pc = "running" /\ pc' = "running") =>
              (step_count' = step_count + 1 /\ frames' = frames + 1)]_vars
    /\ [](pc = "running" => ENABLED (RunLoopStep \/ RunExhausted))

C2_Witness == last = "run" /\ pc = "idle" /\ frames = max_steps + 1

\* C3: with max_steps = N >= 1 and no finished step, run() executes exactly N steps,
\* returns "Max steps reached", and touches neither the device nor the agent between
\* the end of the N-th step and its return.
C3_BudgetExhaustion ==
    /\ [](RunReturned =>
            /\ ~result.finished <=> run_result = "Max steps reached"
            /\ (~result.finished /\ max_steps >= 1) =>
                   (step_count = max_steps /\ frames = max_steps))
    /\ [][(pc = "running" /\ pc' = "idle" /\ result'.kind = "result" /\ ~result'.finished) =>
              (/\ run_result' = "Max steps reached"
               /\ UNCHANGED << frames, step_count, obs, ime, context, result >>)]_vars

C3_Witness == RunReturned /\ run_result = "Max steps reached" /\ max_steps >= 3

\* C4: once a step has completed (by execution, model error, parse failure or
\* stuck-override) no message of the context carries an image, and no model request
\* was made while a message other than the newest carried one.
C4_NoImageAfterStep == ImageCount(context) = 0 /\ ~obs.stale

\* C5: whenever a Type/Type_Name handler got past detect_and_set_adb_keyboard, its last
\* device call is restore_keyboard with the IME found before, and the IME is restored
\* unless that very call failed.
C5_ImeRestored ==
    (StepJustRan /\ Get(obs.action, "action") \in {"Type", "Type_Name"} /\ Len(obs.dev) >= 2) =>
        /\ obs.dev[Len(obs.dev)] = << "restore_keyboard", obs.ime_before >>
        /\ result.success => ime = obs.ime_before

\* C6: the step that records the sixth signature of an AAAAAA or ABABAB pattern
\* increments stuck_warnings.
C6_WarnOnSixth ==
    (StepJustRan /\ obs.pushed /\ _looks_like_loop(recent_action_signatures)) =>
        stuck_warnings = obs.warnings + 1

\* C7: third-party mode, fresh agent, the same Tap on every step, the screen never
\* changing: stuck_warnings advances on step 6 and step 8 at the latest is a
\* synthesized Take_over made without a model request.
SteadyThirdParty == use_thirdparty_prompt /\ odd = 0 /\ last = "run"

C7_StuckScenario ==
    SteadyThirdParty =>
        /\ step_count = 6 => stuck_warnings = obs.warnings + 1
        /\ step_count = 8 =>
               (obs.override /\ obs.requests = 0 /\ Get(obs.action, "action") = "Take_over")

C7_Witness == SteadyThirdParty /\ step_count = 8 /\ obs.override

\* C8: a step is a synthesized Take_over without model request exactly when the mode is
\* third-party and, after the screenshot comparison, screen_unchanged_steps >= 6 and
\* stuck_warnings >= 2; every other step (every step in native mode) requests the model.
C8_StuckOverrideIff ==
    StepJustRan =>
        /\ obs.override <=> (use_thirdparty_prompt /\ obs.unchanged >= 6 /\ obs.warnings >= 2)
        /\ obs.override =>
               /\ obs.requests = 0
               /\ Get(obs.action, "action") = "Take_over"
               /\ Len(obs.dev) = 1 /\ obs.dev[1][1] = "takeover_callback"
        /\ ~obs.override => obs.requests >= 1

C8_Witness == StepJustRan /\ obs.override /\ obs.unchanged = 6

\* C9: a failure of any model request of a step (the first or the retry) makes the
\* step return a terminated StepResult carrying the error, which run() returns.
C9_ModelErrorIsResult ==
    (StepJustRan /\ obs.error # "none") =>
        /\ result.kind = "result"
        /\ result.finished /\ ~result.success
        /\ result.message = "Model error"
        /\ last = "run" => (pc = "idle" /\ run_result = "Model error")

\* C10: a parse failure causes exactly one extra request in third-party mode (after a
\* text-only re-output user message) and none in native mode; a second failure, or the
\* first in native mode, ends the task with a parse-error result; a step makes at most
\* two requests and one that ends in parse failure executes nothing.
RetryPromptPlaced ==
    \E i \in {Len(context) - 1, Len(context)} :
        /\ i >= 2
        /\ context[i] = create_user_message("retry", FALSE, FALSE)
        /\ context[i - 1].role = "assistant"

C10_ParseFailurePolicy ==
    StepJustRan =>
        /\ obs.requests <= 2
        /\ obs.bad = 0 => obs.requests <= 1
        /\ (obs.bad >= 1 /\ use_thirdparty_prompt) => (obs.requests = 2 /\ RetryPromptPlaced)
        /\ (obs.bad >= 1 /\ ~use_thirdparty_prompt) => obs.requests = 1
        /\ ParseFailed <=> (obs.bad = 2 \/ (obs.bad = 1 /\ ~use_thirdparty_prompt))
        /\ ParseFailed =>
               /\ result.finished /\ ~result.success
               /\ obs.action = NoAction /\ obs.dev = << >> /\ ~obs.pushed
               /\ last = "run" => (pc = "idle" /\ run_result = "parse failure")

C10_Witness == StepJustRan /\ ParseFailed /\ use_thirdparty_prompt /\ obs.requests = 2


\* C11: a step that parsed and executed an action is finished iff the action is a
\* finish action or the interpreter's result has should_finish; run() returns right
\* after the first finished step with that step's message, and while the last step
\* was not finished and the budget allows, the next loop step can be taken.
C11_TerminationByAction ==
    /\ []((StepJustRan /\ obs.pushed) =>
            (result.finished <=>
                (Get(obs.action, "_metadata") = "finish" \/ obs.res.should_finish)))
    /\ []((last = "run" /\ result.kind = "result" /\ result.finished) =>
            (pc = "idle" /\ run_result = RunMessage(result)))
    /\ [](pc = "running" => (result.kind = "result" /\ ~result.finished))
    /\ []((pc = "running" /\ step_count < max_steps) => ENABLED RunLoopStep)

C11_Witness ==
    /\ RunReturned /\ obs.pushed /\ result.finished
    /\ Get(obs.action, "_metadata") = "finish"
    /\ step_count >= 2 /\ step_count < max_steps

TapWithMessage ==
    /\ StepJustRan /\ obs.pushed
    /\ Get(obs.action, "action") = "Tap"
    /\ "message" \in DOMAIN obs.action /\ "element" \in DOMAIN obs.action

Cancelled == ActionResult(FALSE, TRUE, "User cancelled sensitive operation")

\* C12: for a Tap that carries a message the confirmation callback is the first call
\* made, before any tap; when it answers false the interpreter returns the
\* cancellation result, no tap reaches the device and the step ends the task with
\* that message.
C12_ConfirmationVeto ==
    TapWithMessage =>
        /\ Len(obs.dev) >= 1
        /\ obs.dev[1][1] = "confirmation_callback" /\ obs.dev[1][2] = obs.action.message
        /\ \A i \in 1..Len(obs.dev) : obs.dev[i][1] = "tap" => i > 1
        /\ obs.dev[1][3] = FALSE =>
              /\ Len(obs.dev) = 1
              /\ obs.res = Cancelled
              /\ result.finished /\ ~result.success
              /\ result.message = "User cancelled sensitive operation"
              /\ last = "run" =>
                    (pc = "idle" /\ run_result = "User cancelled sensitive operation")

C12_Witness == TapWithMessage /\ obs.dev[1][3] = FALSE /\ last = "run" /\ step_count >= 2

TakeOverRan ==
    /\ StepJustRan /\ (obs.pushed \/ obs.override)
    /\ Get(obs.action, "action") = "Take_over"

\* C20: a Take_over action, emitted by the model or synthesized by the stuck-override,
\* calls the takeover callback exactly once and nothing else, the interpreter returns
\* success without should_finish, and the step is not finished: run() does not return
\* on account of it (it goes on, or returns because the budget is spent).
C20_TakeOverContinues ==
    TakeOverRan =>
        /\ Len(obs.dev) = 1 /\ obs.dev[1][1] = "takeover_callback"
        /\ obs.res.success /\ ~obs.res.should_finish
        /\ result.success /\ ~result.finished
        /\ last = "run" => run_result \in {"pending", "Max steps reached"}

C20_Witness == TakeOverRan /\ obs.pushed /\ ~obs.override /\ last = "run"

\* The gestures the call sent to the device: the log entries that carry pixels.
Gestures == { i \in 1..Len(output.dev) :
                 output.dev[i][1] \in {"tap", "double_tap", "long_press", "swipe"} }

GuardedCall ==
    /\ pc = "executed"
    /\ Get(input.action, "action") \in PointerNames
    /\ "message" \in DOMAIN input.action /\ "element" \in DOMAIN input.action

\* C13: for Tap, Double Tap and Long Press alike, when the action carries a message
\* the confirmation callback is called first, before the gesture, and the gesture is
\* sent only if the callback answered true.
C13_GuardOnPointerActions ==
    GuardedCall =>
        /\ Len(output.dev) >= 1 /\ output.dev[1][1] = "confirmation_callback"
        /\ Gestures # {} => input.confirm

\* C14: execute returns an ActionResult for every action record and never raises;
\* when a device call of the handler fails the result is unsuccessful, does not ask
\* to finish and carries the reason.
C14_InterpreterNeverRaises ==
    pc = "executed" =>
        /\ ~output.raised
        /\ (input.fail # 0 /\ ~Vetoed(input.action, input.confirm)) =>
              output.res = ActionResult(FALSE, FALSE, "Action failed")

\* The pixels of the i-th log entry with the relative coordinates and the screen
\* dimension each was scaled from.
Scalings(i) ==
    LET call == output.dev[i]
        a == input.action
    IN  IF call[1] = "swipe"
        THEN { << call[2], a.start[1], input.width >>, << call[3], a.start[2], input.height >>,
               << call[4], a.end[1], input.width >>, << call[5], a.end[2], input.height >> }
        ELSE { << call[2], a.element[1], input.width >>,
               << call[3], a.element[2], input.height >> }

\* C15: every pixel sent to the device lies on the screen: 0 <= pixel < dimension, for
\* every coordinate the parser hands over (0..MaxRel here).
C15_PixelOnScreen ==
    pc = "executed" =>
        \A i \in Gestures : \A sc \in Scalings(i) : 0 <= sc[1] /\ sc[1] < sc[3]

\* C16: for relative coordinates in 0..999 every pixel sent to the device is the
\* integer nearest to rel / 1000 * dim (either neighbour on a tie), for Tap, Double
\* Tap, Long Press and both ends of a Swipe.
C16_PixelIsNearest ==
    pc = "executed" =>
        \A i \in Gestures : \A sc \in Scalings(i) :
            sc[2] <= 999 =>
                /\ 2 * (Scale * sc[1] - sc[2] * sc[3]) <= Scale
                /\ 2 * (sc[2] * sc[3] - Scale * sc[1]) <= Scale

\* The reply was parsed into an action record.
ParsedAction == pc = "parsed" /\ output.ok

\* The whole value is an expression that ast.literal_eval refuses.
NonLiteral(value) ==
    LET e == Expression(value, 1)
    IN  e.ok /\ ~e.lit /\ Skip(value, e.next) > Len(value)

\* C17: every action record that parse_action returns is a finish record or a do
\* record whose action field is one of the fourteen names that execute dispatches.
C17_ParsedActionIsEnumerated ==
    ParsedAction =>
        \/ output.action._metadata = "finish"
        \/ /\ output.action._metadata = "do"
           /\ "action" \in DOMAIN output.action
           /\ output.action.action \in HandledNames

\* C18: a call of do or finish with an argument value that is not a literal (a name,
\* a nested call, a sum) is rejected and never produces an action record.
C18_NonLiteralRejected ==
    (pc = "parsed" /\ input.form = "element" /\ input.fn \in {"do", "finish"}
         /\ NonLiteral(input.value))
        => ~output.ok

\* C19: normalising curly quotes and full-width punctuation leaves the content of a
\* string argument as it was written: the text of a parsed Type call is the content
\* between its quotes, and the reply with the full-width comma parses to that text.
SmartQuoteReply ==
    << "do", "(", "action", "=", LDQuo, "Type", RDQuo, ",", " ", "text", "=", LDQuo, NiHao,
       FWComma, ShiJie, RDQuo, ")" >>

C19_ContentPreserved ==
    /\ (ParsedAction /\ input.form = "type" /\ "text" \in DOMAIN output.action)
           => output.action.text = Join(input.content)
    /\ (pc = "parsed" /\ input.text = SmartQuoteReply)
           => output = Action([_metadata |-> "do", action |-> "Type",
                               text |-> Join(<< NiHao, FWComma, ShiJie >>)])

\* The positions of the system-role messages of a context.
SystemMessages(ctx) == { i \in 1..Len(ctx) : ctx[i].role = "system" }

\* C21: in third-party mode the context never holds a system-role message; in native
\* mode a context that holds anything holds exactly one system message, the first one,
\* and the context run() builds is never empty.
C21_MessageRolesByMode ==
    /\ use_thirdparty_prompt => SystemMessages(context) = {}
    /\ (~use_thirdparty_prompt /\ context # << >>) => SystemMessages(context) = {1}
    /\ (~use_thirdparty_prompt /\ last = "run") => context # << >>

C21_Witness ==
    /\ ~use_thirdparty_prompt /\ last = "run" /\ step_count >= 3
    /\ Len(context) >= 7 /\ context[2].role = "user"

\* The launchers run without leave to keep secrets in the file.
Redacting == pc = "launcher" /\ ~allow_config_file_secrets(input.env)

\* C22: unless OPEN_AUTOGLM_ALLOW_CONFIG_FILE_SECRETS is truthy, the file that
\* save_config_to_file writes has neither an api_key nor a backup_api_key member and
\* is the same for two configurations that differ in their keys only, and no call
\* changes CONFIG.api_key or CONFIG.backup_api_key, whatever the file holds.
C22_SecretRedaction ==
    /\ []((Redacting /\ output.saves > 0) =>
             /\ DOMAIN output.file.data \cap SecretFields = {}
             /\ output.file = output.twin_file)
    /\ [][Redacting => \A k \in SecretFields : /\ output'.config[k] = output.config[k]
                                               /\ output'.twin[k] = output.twin[k]]_vars

C22_Witness ==
    /\ Redacting /\ output.saves > 0 /\ output.loads > 0
    /\ input.env # Null
    /\ output.config.api_key # output.twin.api_key
    /\ output.config.backup_api_key # output.twin.backup_api_key
    /\ output.config.base_url # input.config.base_url
    /\ "api_key" \in DOMAIN input.file.data

ScaleCalled == pc = "called" /\ input.kind = "scale"

\* The distance between a relative coordinate and what comes back for it.
RoundTripLoss(i) ==
    IF output.back[i] >= input.element[i] THEN output.back[i] - input.element[i]
    ELSE input.element[i] - output.back[i]

\* C23 as stated: for relative coordinates in 0..999 and every positive width and
\* height, scaling to pixels and back recovers each coordinate to within 1.
C23_ScalingRoundTrip ==
    ScaleCalled =>
        \A i \in 1..2 : input.element[i] <= 999 => RoundTripLoss(i) <= 1

\* C23, amended: for relative coordinates in 0..999 and a width and a height of at
\* least 1000 pixels, scaling to pixels and back recovers each coordinate to within 1.
C23_ScalingRoundTripOnLargeScreens ==
    ScaleCalled =>
        \A i \in 1..2 :
            (input.element[i] <= 999 /\ << input.width, input.height >>[i] >= Scale) =>
                RoundTripLoss(i) <= 1

C23_Witness ==
    /\ ScaleCalled /\ input.width = 1080 /\ input.height = 2400
    /\ input.element = << 999, 205 >>
    /\ RoundTripLoss(1) = 1 /\ RoundTripLoss(2) = 1

SignatureCalled == pc = "called" /\ input.kind = "signature"

\* The canonical form of the signature of the call the reply spells, the numbers as
\* they are written in the reply and the items of a list separated by sep.
SignatureForm(sep) ==
    LET a == input.args
        List(x, y) == "[" \o x \o sep \o y \o "]"
    IN  CASE input.form = "Tap" -> "Tap:" \o List(a[1], a[2])
          [] input.form = "Swipe" -> "Swipe:" \o List(a[1], a[2]) \o "->" \o List(a[3], a[4])
          [] input.form = "Type" -> "Type:" \o a[1]
          [] input.form = "Launch" -> "Launch:" \o a[1]
          [] input.form = "Wait" -> "Wait:" \o a[1]
          [] input.form = "Take_over" -> "Take_over"
          [] input.form = "finish" -> "finish"
          [] OTHER -> input.form

\* C24 as stated: the signature of the parsed reply do(action="Tap", element=[x,y]) is
\* exactly Tap:[x,y], and the signatures have the forms Tap:[x,y],
\* Swipe:[x1,y1]->[x2,y2], Type:<text>, Launch:<app>, Wait:<dur>, Take_over, finish,
\* and otherwise the action name.
C24_SignatureRoundTrip ==
    SignatureCalled => (output.parsed.ok /\ output.signature = SignatureForm(","))

\* C24, amended: the same forms with a list written as Python writes it, a comma and
\* a space between its items: Tap:[x, y] and Swipe:[x1, y1]->[x2, y2].
C24_SignatureRoundTripSpaced ==
    SignatureCalled => (output.parsed.ok /\ output.signature = SignatureForm(", "))

C24_Witness ==
    /\ SignatureCalled /\ input.form = "Tap" /\ input.args = << "500", "1000" >>
    /\ output.parsed.action.element = << 500, 1000 >>
    /\ output.signature = "Tap:[500, 1000]"

LoopCalled == pc = "called" /\ input.kind = "loop"

\* The last six signatures of the list given to the detector (it has six or more).
LastSix == SubSeq(input.signatures, Len(input.signatures) - 5, Len(input.signatures))

\* C25: _looks_like_loop returns true exactly when the list has at least six entries
\* and its last six are all equal or are A,B,A,B,A,B for two different signatures A
\* and B; it returns false for every other list, any with fewer than six entries
\* included.
C25_LoopDetector ==
    LoopCalled =>
        (output.loop <=>
            /\ Len(input.signatures) >= 6
            /\ \/ \E a \in {"A", "B", "C"} : LastSix = << a, a, a, a, a, a >>
               \/ \E a, b \in {"A", "B", "C"} : a # b /\ LastSix = << a, b, a, b, a, b >>)

C25_Witness ==
    /\ LoopCalled /\ output.loop
    /\ input.signatures = << "C", "A", "B", "A", "B", "A", "B" >>

\* The transition is one call of _execute_step (by run() or by step()).
StepTransition == last' \in {"run", "step"} /\ (calls' # calls \/ frames' # frames)

\* The last RingCapacity entries of a list.
MostRecent(signatures) ==
    SubSeq(signatures, IF Len(signatures) > 12 THEN Len(signatures) - 11 ELSE 1,
           Len(signatures))

\* C26: the recent-action ring never holds more than 12 signatures; every step that
\* parsed a model action appends that action's signature and keeps the most recent
\* 12, in order; a step that ends in model error, parse failure or stuck-override
\* adds nothing to the ring.
C26_RecentActionRing ==
    /\ [](Len(recent_action_signatures) <= 12)
    /\ [][StepTransition =>
            /\ obs'.pushed <=> (obs'.action # NoAction /\ ~obs'.override)
            /\ recent_action_signatures' =
                   IF obs'.pushed
                   THEN MostRecent(recent_action_signatures
                                       \o << _action_signature(obs'.action) >>)
                   ELSE recent_action_signatures
            /\ (obs'.error # "none" \/ obs'.override \/ obs'.action = NoAction
                    \/ (result'.kind = "result" /\ result'.message = "parse failure"))
                   => recent_action_signatures' = recent_action_signatures]_vars

C26_Witness ==
    /\ StepJustRan /\ last = "run" /\ calls = 2 /\ ~use_thirdparty_prompt
    /\ obs.pushed /\ step_count = 8
    /\ Len(recent_action_signatures) = 12
    /\ recent_action_signatures[12] = _action_signature(obs.action)

\* C27: after the screenshot of a step, screen_unchanged_steps is one more than
\* before when the screenshot's hash equals last_screen_hash and 0 otherwise, this is
\* the count the rest of the step works with, and last_screen_hash is the hash of
\* the screenshot just taken.
C27_UnchangedScreenCount ==
    [][StepTransition =>
          /\ last_screen_hash' \in {_screen_hash(data) : data \in 1..NumScreens}
          /\ screen_unchanged_steps' =
                 IF last_screen_hash' = last_screen_hash THEN screen_unchanged_steps + 1
                 ELSE 0
          /\ obs'.unchanged = screen_unchanged_steps']_vars

\* The fifth step of a first run whose third screenshot differed from the second.
C27_Witness ==
    /\ StepJustRan /\ last = "run" /\ calls = 1 /\ frames = 5
    /\ screen_unchanged_steps = 2 /\ obs.unchanged = 2

\* C28: a step increments stuck_warnings by exactly one when the screen has been
\* unchanged for two or more steps or the recorded signatures form a loop pattern,
\* and leaves it unchanged otherwise.
C28_StuckWarningsCounted ==
    [][StepTransition =>
          stuck_warnings' = stuck_warnings +
              (IF screen_unchanged_steps' >= 2 \/ _looks_like_loop(recent_action_signatures)
               THEN 1 ELSE 0)]_vars

AssistantMessages(ctx) == Cardinality({ i \in 1..Len(ctx) : ctx[i].role = "assistant" })

\* The context the step starts from: run() empties it before its first step.
EntryContext == IF last' = "run" /\ calls' # calls THEN << >> ELSE context

\* C29: a step whose model request fails appends no assistant message to the context,
\* pushes nothing to the recent-action ring, executes no device action and leaves
\* stuck_warnings and the device as they were: only the step counter, the screen-hash
\* state and the appended user message change.
C29_FailedRequestChangesNothing ==
    [][(StepTransition /\ obs'.error # "none") =>
          /\ AssistantMessages(context') = AssistantMessages(EntryContext)
          /\ recent_action_signatures' = recent_action_signatures
          /\ obs'.dev = << >> /\ ime' = ime
          /\ stuck_warnings' = stuck_warnings]_vars

\* C30: no history persists across tasks: the first step of any run() starts from the
\* loop state of a fresh agent, so after it the unchanged-screen count is 0, the ring
\* holds at most the signature of that step, stuck_warnings is 0 and the step was not
\* replaced by a stuck-override.
C30_FreshStateOnRun ==
    (StepJustRan /\ last = "run" /\ frames = 1) =>
        /\ screen_unchanged_steps = 0
        /\ Len(recent_action_signatures) <= 1
        /\ stuck_warnings = 0
        /\ ~obs.override

\* The context opens with the task: the user message of a first step, after the
\* system prompt in native mode.
OpensWithTask(ctx) ==
    IF use_thirdparty_prompt
    THEN Len(ctx) >= 1 /\ ctx[1].role = "user" /\ ctx[1].text = "system_prompt+task"
    ELSE /\ Len(ctx) >= 2
         /\ ctx[1] = create_system_message
         /\ ctx[2].role = "user" /\ ctx[2].text = "task"

\* C31: every model request made during run(task) is made with a context that opens
\* with the task (after the system prompt in native mode), whichever steps came
\* before it, steps taken over by the stuck-override included.  A step only appends
\* to the context, so the context it leaves opens like the one it requested with.
C31_TaskAlwaysInPrompt ==
    (StepJustRan /\ last = "run" /\ obs.requests > 0) => OpensWithTask(context)

\* execute was called on a Type or Type_Name action.
TypeCalled ==
    /\ pc = "executed"
    /\ Get(input.action, "_metadata") = "do"
    /\ Get(input.action, "action") \in {"Type", "Type_Name"}

\* The names of the device calls of the log, in the order they were issued.
CallNames(dev) == [i \in 1..Len(dev) |-> dev[i][1]]

TypeOrder == << "detect_and_set_adb_keyboard", "clear_text", "type_text", "restore_keyboard" >>

NoDeviceCall == ~output.raised /\ output.dev = << >> /\ output.ime = input.ime

UrlCalled == pc = "called" /\ input.kind = "url"

\* The URL as given, without the spaces around it and the slashes that end it.
Trimmed(url) ==
    LET Kept == { i \in 1..Len(url) : url[i] \notin {" ", "/"} }
    IN  IF Kept = {} THEN << >>
        ELSE SubSeq(url, CHOOSE i \in Kept : \A j \in Kept : i <= j,
                    CHOOSE i \in Kept : \A j \in Kept : i >= j)

\* C34: normalize_openai_base_url appends /v1 only to a bare host root: a base URL
\* that carries a path, such as https://open.bigmodel.cn/api/paas/v4, comes back
\* unchanged, a URL that ends in /v1 comes back unchanged, and normalising twice
\* gives what normalising once gives.
C34_V1OnlyOnBareHost ==
    UrlCalled =>
        /\ output.again = output.url
        /\ Len(Trimmed(input.url)) = 1 => output.url = Trimmed(input.url) \o << "/v1" >>
        /\ Len(Trimmed(input.url)) # 1 => output.url = Trimmed(input.url)

\* parse_action was called on a reply that is a bare JSON object: its element, where
\* it has one, is a JSON value (a number or a list of numbers).
JsonObjectParsed ==
    /\ pc = "parsed" /\ input.form = "json"
    /\ input.value \in { << >>, << "100" >>, << "[", "1", ",", "2", "]" >>,
                         << "[", "500", ",", " ", "1000", "]" >> }

\* The keys the object of the reply spells: a quoted word followed by a colon.
GivenKeys ==
    { input.text[i + 1] : i \in { j \in 1..(Len(input.text) - 3) :
                                     /\ input.text[j] = DQ /\ input.text[j + 2] = DQ
                                     /\ input.text[j + 3] = ":" } }

\* The value the reply gives to its _metadata key (the reply has one).
GivenMetadata ==
    input.text[5 + CHOOSE j \in 1..(Len(input.text) - 5) :
                       /\ input.text[j] = DQ /\ input.text[j + 1] = "_metadata"
                       /\ input.text[j + 2] = DQ /\ input.text[j + 3] = ":"]

SynthesizedMetadata ==
    IF "message" \in GivenKeys /\ "action" \notin GivenKeys THEN "finish" ELSE "do"

====
